---------------------------- MODULE Spec2Model ----------------------------
(***************************************************************************)
(* Model of src/meta_analyzer.py: the CI imputation pass                   *)
(* (_impute_ci_from_raw), the numeric helpers (coerce_float,               *)
(* normalize_type, se_from_ci), the readiness gate and the                 *)
(* DerSimonian-Laird pooling engine of class MetaAnalyzer.                 *)
(*                                                                         *)
(* Numbers.  A Python/numpy float is modelled as an exact rational, or one *)
(* of the IEEE-754 specials +inf, -inf, NaN: a record [k, n, d] with       *)
(* k = "fin" (value n/d in lowest terms, d > 0), k = "inf" (sign n) or     *)
(* k = "nan".  Arithmetic follows IEEE-754 for the specials; finite        *)
(* arithmetic is exact (binary rounding is not modelled, signed zeros are  *)
(* not distinguished).                                                     *)
(*                                                                         *)
(* Text.  A Python str is modelled as a sequence of one-character strings, *)
(* so that strip(), upper(), lower() and substring tests are computed.     *)
(*                                                                         *)
(* JSON.  A JSON scalar is a record [t, s, v]: t = "null", t = "str" (text *)
(* s) or t = "num" (float v; Python's json module accepts the literals     *)
(* NaN, Infinity and -Infinity).                                           *)
(***************************************************************************)
EXTENDS Integers, Sequences, FiniteSets, TLC

VARIABLES
    pc,          \* position of the run: which stage completed last
    min_k,       \* MetaAnalyzer.min_k, the constructor's argument
    files,       \* the study documents under INPATH, in sorted path order
    ci_files,    \* the copies written under OUTDIR/ci_imputed (by file index)
    effects_df,  \* MetaAnalyzer.effects_df: sequence of rows
    pooled_df,   \* MetaAnalyzer.pooled_df: sequence of rows
    out_csv,     \* the tables written under OUTDIR, by file name
    call,        \* a direct call of one of the module's functions: arguments, result
    json_paths,  \* MetaAnalyzer.json_paths: the documents build_effects reads (file indices)
    runs         \* the tables of the runs completed so far, oldest first

vars == <<pc, min_k, files, ci_files, effects_df, pooled_df, out_csv, call, json_paths, runs>>

-----------------------------------------------------------------------------
(* Integer helpers *)

Abs(i) == IF i < 0 THEN -i ELSE i

RECURSIVE GCD(_, _)
GCD(a, b) == IF b = 0 THEN a ELSE GCD(b, a % b)

Sign(i) == IF i < 0 THEN -1 ELSE IF i > 0 THEN 1 ELSE 0

RECURSIVE ISqrtIn(_, _, _)
\* the largest r in lo..hi with r*r <= x (lo*lo <= x is given)
ISqrtIn(x, lo, hi) ==
    IF lo >= hi THEN lo
    ELSE LET mid == (lo + hi + 1) \div 2
         IN  IF mid * mid <= x THEN ISqrtIn(x, mid, hi) ELSE ISqrtIn(x, lo, mid - 1)

ISqrt(x) == ISqrtIn(x, 0, IF x < 46340 THEN x ELSE 46340)

-----------------------------------------------------------------------------
(* Floats *)

NaN == [k |-> "nan", n |-> 0, d |-> 1]
PInf == [k |-> "inf", n |-> 1, d |-> 1]
NInf == [k |-> "inf", n |-> -1, d |-> 1]
Inf(s) == IF s < 0 THEN NInf ELSE PInf

\* the rational n/d (d # 0) in lowest terms
Fin(n, d) ==
    LET g == GCD(Abs(n), Abs(d))
        s == IF d < 0 THEN -1 ELSE 1
    IN  [k |-> "fin", n |-> s * (n \div g), d |-> s * (d \div g)]

Int2F(i) == [k |-> "fin", n |-> i, d |-> 1]
Zero == Int2F(0)
One == Int2F(1)

IsNaN(x) == x.k = "nan"
IsInf(x) == x.k = "inf"
IsFinite(x) == x.k = "fin"
IsZero(x) == x.k = "fin" /\ x.n = 0
FSign(x) == IF x.k = "nan" THEN 0 ELSE Sign(x.n)

FNeg(x) == IF x.k = "nan" THEN NaN ELSE [x EXCEPT !.n = -x.n]

FAdd(x, y) ==
    IF IsNaN(x) \/ IsNaN(y) THEN NaN
    ELSE IF IsInf(x) /\ IsInf(y) THEN (IF x.n = y.n THEN x ELSE NaN)
    ELSE IF IsInf(x) THEN x
    ELSE IF IsInf(y) THEN y
    ELSE LET g == GCD(x.d, y.d)
         IN  Fin(x.n * (y.d \div g) + y.n * (x.d \div g), (x.d \div g) * y.d)

FSub(x, y) == FAdd(x, FNeg(y))

FMul(x, y) ==
    IF IsNaN(x) \/ IsNaN(y) THEN NaN
    ELSE IF IsInf(x) \/ IsInf(y)
         THEN (IF IsZero(x) \/ IsZero(y) THEN NaN ELSE Inf(FSign(x) * FSign(y)))
    ELSE LET g1 == GCD(Abs(x.n), y.d)
             g2 == GCD(Abs(y.n), x.d)
         IN  Fin((x.n \div g1) * (y.n \div g2), (x.d \div g2) * (y.d \div g1))

\* IEEE-754 division, as numpy performs it: x/0 is +-inf, 0/0 is NaN (a warning,
\* no exception)
FDiv(x, y) ==
    IF IsNaN(x) \/ IsNaN(y) THEN NaN
    ELSE IF IsInf(x) THEN (IF IsInf(y) THEN NaN
                           ELSE Inf(x.n * (IF y.n < 0 THEN -1 ELSE 1)))
    ELSE IF IsInf(y) THEN Zero
    ELSE IF y.n = 0 THEN (IF x.n = 0 THEN NaN ELSE Inf(x.n))
    ELSE FMul(x, Fin(y.d, y.n))

\* x < y and x > y as IEEE comparisons: FALSE when either side is NaN
FLt(x, y) ==
    /\ ~IsNaN(x)
    /\ ~IsNaN(y)
    /\ IF IsInf(x) THEN x.n < 0 /\ y # NInf
       ELSE IF IsInf(y) THEN y.n > 0
       ELSE x.n * y.d < y.n * x.d

FGt(x, y) == FLt(y, x)
FLe(x, y) == ~IsNaN(x) /\ ~IsNaN(y) /\ ~FLt(y, x)

\* x ** 0.5 on a float: NaN for negative finite x; exact on squares of
\* rationals, an inexact root is cut to three decimals (to fewer when the
\* numerator is too large for the 32-bit integers of the arithmetic)
FSqrt(x) ==
    IF IsNaN(x) THEN NaN
    ELSE IF IsInf(x) THEN PInf
    ELSE IF x.n < 0 THEN NaN
    ELSE LET rn == ISqrt(x.n)
             rd == ISqrt(x.d)
             scale == IF x.n < 2147 THEN 1000
                      ELSE IF x.n < 214748 THEN 100
                      ELSE IF x.n < 21474836 THEN 10
                      ELSE 1
         IN  IF rn * rn = x.n /\ rd * rd = x.d THEN Fin(rn, rd)
             ELSE Fin(ISqrt((x.n * scale * scale) \div x.d), scale)

\* Python's builtin max(0.0, x): x when x > 0.0, else the first argument
PyMax0(x) == IF FGt(x, Zero) THEN x ELSE Zero

RECURSIVE FSum(_)
\* np.sum over a 1-d array
FSum(xs) == IF xs = <<>> THEN Zero ELSE FAdd(FSum(SubSeq(xs, 1, Len(xs) - 1)), xs[Len(xs)])

\* Z = 1.96
Z == Fin(49, 25)

-----------------------------------------------------------------------------
(* Text *)

LowerAlpha == <<"a","b","c","d","e","f","g","h","i","j","k","l","m",
                "n","o","p","q","r","s","t","u","v","w","x","y","z">>
UpperAlpha == <<"A","B","C","D","E","F","G","H","I","J","K","L","M",
                "N","O","P","Q","R","S","T","U","V","W","X","Y","Z">>
Digits == <<"0","1","2","3","4","5","6","7","8","9">>

\* the characters of the model's texts in code-point order
Chars == <<" ", "'", "(", ")", "+", "-", ".", "/">> \o Digits \o UpperAlpha
         \o <<"[", "]">> \o LowerAlpha

CharCode(c) == CHOOSE i \in 1..Len(Chars) : Chars[i] = c

IsSpace(c) == c = " "

UpperChar(c) ==
    IF \E i \in 1..26 : LowerAlpha[i] = c
    THEN UpperAlpha[CHOOSE i \in 1..26 : LowerAlpha[i] = c] ELSE c

LowerChar(c) ==
    IF \E i \in 1..26 : UpperAlpha[i] = c
    THEN LowerAlpha[CHOOSE i \in 1..26 : UpperAlpha[i] = c] ELSE c

\* str.upper(), str.lower()
StrUpper(s) == [i \in 1..Len(s) |-> UpperChar(s[i])]
StrLower(s) == [i \in 1..Len(s) |-> LowerChar(s[i])]

RECURSIVE LStrip(_)
LStrip(s) == IF s # <<>> /\ IsSpace(s[1]) THEN LStrip(Tail(s)) ELSE s

RECURSIVE RStrip(_)
RStrip(s) == IF s # <<>> /\ IsSpace(s[Len(s)]) THEN RStrip(SubSeq(s, 1, Len(s) - 1)) ELSE s

\* str.strip()
StrStrip(s) == RStrip(LStrip(s))

\* tok in s
Contains(s, tok) ==
    \E i \in 0..(Len(s) - Len(tok)) : SubSeq(s, i + 1, i + Len(tok)) = tok

RECURSIVE StrLess(_, _)
\* s < t on Python strings (code-point lexicographic order)
StrLess(s, t) ==
    IF t = <<>> THEN FALSE
    ELSE IF s = <<>> THEN TRUE
    ELSE IF s[1] = t[1] THEN StrLess(Tail(s), Tail(t))
    ELSE CharCode(s[1]) < CharCode(t[1])

-----------------------------------------------------------------------------
(* JSON scalars *)

JNull == [t |-> "null", s |-> <<>>, v |-> NaN]
JStr(s) == [t |-> "str", s |-> s, v |-> NaN]
JNum(v) == [t |-> "num", s |-> <<>>, v |-> v]

IsNull(x) == x.t = "null"

IsDigit(c) == \E i \in 1..10 : Digits[i] = c
DigitVal(c) == (CHOOSE i \in 1..10 : Digits[i] = c) - 1

AllDigits(s) == \A i \in 1..Len(s) : IsDigit(s[i])

RECURSIVE DigitsVal(_)
DigitsVal(s) == IF s = <<>> THEN 0 ELSE 10 * DigitsVal(SubSeq(s, 1, Len(s) - 1)) + DigitVal(s[Len(s)])

RECURSIVE Pow10(_)
Pow10(i) == IF i = 0 THEN 1 ELSE 10 * Pow10(i - 1)

\* the unsigned decimal literals float() accepts: digits, optionally one "."
\* (exponents and underscores are outside the model's texts)
IsDecimal(s) ==
    \/ s # <<>> /\ AllDigits(s)
    \/ \E i \in 1..Len(s) :
          /\ s[i] = "."
          /\ AllDigits(SubSeq(s, 1, i - 1))
          /\ AllDigits(SubSeq(s, i + 1, Len(s)))
          /\ Len(s) > 1

DecimalVal(s) ==
    IF AllDigits(s) THEN Int2F(DigitsVal(s))
    ELSE LET i == CHOOSE j \in 1..Len(s) : s[j] = "."
             ip == SubSeq(s, 1, i - 1)
             fp == SubSeq(s, i + 1, Len(s))
         IN  Fin(DigitsVal(ip) * Pow10(Len(fp)) + DigitsVal(fp), Pow10(Len(fp)))

s_inf == <<"i","n","f">>
s_infinity == <<"i","n","f","i","n","i","t","y">>
s_nan == <<"n","a","n">>

\* float(s) on a str: [ok |-> whether it parses, v |-> the value]
PyFloatStr(s) ==
    LET t == StrStrip(s)
        signed == t # <<>> /\ t[1] \in {"+", "-"}
        sg == IF signed /\ t[1] = "-" THEN -1 ELSE 1
        body == IF signed THEN Tail(t) ELSE t
        low == StrLower(body)
    IN  IF low = s_inf \/ low = s_infinity THEN [ok |-> TRUE, v |-> Inf(sg)]
        ELSE IF low = s_nan THEN [ok |-> TRUE, v |-> NaN]
        ELSE IF IsDecimal(body)
             THEN [ok |-> TRUE, v |-> (IF sg < 0 THEN FNeg(DecimalVal(body)) ELSE DecimalVal(body))]
        ELSE [ok |-> FALSE, v |-> NaN]

\* float(x) on a JSON scalar: float(None) raises TypeError
PyFloat(x) ==
    IF x.t = "num" THEN [ok |-> TRUE, v |-> x.v]
    ELSE IF x.t = "str" THEN PyFloatStr(x.s)
    ELSE [ok |-> FALSE, v |-> NaN]

\* coerce_float(x): NaN for None, a blank str and anything float() rejects
\* (PyFloat's v is NaN then)
coerce_float(x) ==
    IF IsNull(x) \/ (x.t = "str" /\ StrStrip(x.s) = <<>>) THEN NaN
    ELSE PyFloat(x).v

\* se_from_ci(ci_low, ci_high)
se_from_ci(ci_low, ci_high) ==
    LET lo == coerce_float(ci_low)
        hi == coerce_float(ci_high)
    IN  IF IsNaN(lo) \/ IsNaN(hi) THEN NaN
        ELSE FDiv(FSub(hi, lo), FMul(Int2F(2), Z))

\* MetaAnalyzer.readiness_reason(estimate, ci_low, ci_high)
readiness_reason(estimate, ci_low, ci_high) ==
    IF IsNaN(coerce_float(estimate)) THEN "No effect estimate"
    ELSE IF IsNaN(se_from_ci(ci_low, ci_high)) THEN "Missing CI (or unparsable)"
    ELSE "Ready"

-----------------------------------------------------------------------------
(* normalize_type *)

s_MD == <<"M","D">>
s_SMD == <<"S","M","D">>
s_RR == <<"R","R">>
s_OR == <<"O","R">>
s_HR == <<"H","R">>
s_LOGRR == <<"L","O","G","R","R">>
s_LOGOR == <<"L","O","G","O","R">>
s_LOGHR == <<"L","O","G","H","R">>

\* the aliases dict: <<key, code>> pairs
aliases ==
    { <<<<"M","E","A","N"," ","D","I","F","F","E","R","E","N","C","E">>, s_MD>>,
      <<<<"S","T","A","N","D","A","R","D","I","Z","E","D"," ",
          "M","E","A","N"," ","D","I","F","F","E","R","E","N","C","E">>, s_SMD>>,
      <<<<"H","E","D","G","E","'","S"," ","G">>, s_SMD>>,
      <<<<"H","E","D","G","E","S"," ","G">>, s_SMD>>,
      <<<<"C","O","H","E","N"," ","D">>, s_SMD>>,
      <<<<"C","O","H","E","N","'","S"," ","D">>, s_SMD>>,
      <<<<"R","I","S","K"," ","R","A","T","I","O">>, s_RR>>,
      <<<<"O","D","D","S"," ","R","A","T","I","O">>, s_OR>>,
      <<<<"H","A","Z","A","R","D"," ","R","A","T","I","O">>, s_HR>>,
      <<<<"L","O","G","(","R","R",")">>, s_LOGRR>>,
      <<<<"L","O","G","(","O","R",")">>, s_LOGOR>>,
      <<<<"L","O","G","(","H","R",")">>, s_LOGHR>> }

\* a normalize_type that looks the label up without stripping it
normalize_type_nostrip(t) ==
    IF IsNull(t) THEN JNull
    ELSE IF \E a \in aliases : a[1] = StrUpper(t.s)
         THEN JStr((CHOOSE a \in aliases : a[1] = StrUpper(t.s))[2])
         ELSE JStr(StrUpper(t.s))

\* normalize_type(t) on a JSON null or str
normalize_type(t) ==
    IF IsNull(t) THEN JNull
    ELSE LET u == StrUpper(StrStrip(t.s))
         IN  IF \E a \in aliases : a[1] = u
             THEN JStr((CHOOSE a \in aliases : a[1] = u)[2])
             ELSE JStr(u)

-----------------------------------------------------------------------------
(* Study documents and MetaAnalyzer *)

\* MIN_K, the module global that __main__ sets and pool_groups reads
MIN_K == 2

\* one entry of a document's effects_by_outcome list (the keys the analyzer and
\* the imputer read; a missing key reads as null)
Effect(name, type, tp, estimate, ci_low, ci_high, unit, notes) ==
    [name |-> name, type |-> type, timepoint_weeks |-> tp, estimate |-> estimate,
     ci_low |-> ci_low, ci_high |-> ci_high, unit |-> unit, notes |-> notes]

\* one entry of a document's outcomes_raw list: one arm at one (outcome,
\* timepoint)
ArmRow(name, tp, arm_name, n, fm, fsd, cm, csd, units) ==
    [name |-> name, timepoint_weeks |-> tp, arm_name |-> arm_name, n |-> n,
     followup_mean |-> fm, followup_sd |-> fsd, change_mean |-> cm, change_sd |-> csd,
     units |-> units]

\* the exposure object of a document
Exposure(label, comparator) == [label |-> label, comparator |-> comparator]
NoExposure == Exposure(JNull, JNull)

\* a study document whose file holds a JSON object: its effects_by_outcome
\* list, its outcomes_raw list and its exposure object
Doc(effects, raw, exposure) ==
    [json |-> "object", effects_by_outcome |-> effects, outcomes_raw |-> raw,
     exposure |-> exposure]

\* a file that json.load rejects, and a file whose JSON is a list, not an object
InvalidJson ==
    [json |-> "invalid", effects_by_outcome |-> <<>>, outcomes_raw |-> <<>>,
     exposure |-> NoExposure]
TopLevelList ==
    [json |-> "list", effects_by_outcome |-> <<>>, outcomes_raw |-> <<>>,
     exposure |-> NoExposure]

\* whether an entry of effects_by_outcome is a JSON object (a dict, which has
\* .get) and not a scalar
IsObjectEntry(e) == "name" \in DOMAIN e

\* whether load_effect_rows(path) raises: json.load fails, data has no .get
\* (line 282), or an entry e has none (line 291)
LoadRaises(path) ==
    \/ files[path].json # "object"
    \/ \E i \in 1..Len(files[path].effects_by_outcome) :
          ~IsObjectEntry(files[path].effects_by_outcome[i])

\* MetaAnalyzer.load_effect_rows(path): one row per entry of effects_by_outcome
load_effect_rows(path) ==
    LET effects == files[path].effects_by_outcome
    IN  [i \in 1..Len(effects) |->
           LET e == effects[i]
           IN  [file |-> path,
                outcome |-> e.name,
                type |-> normalize_type(e.type),
                timepoint_weeks |-> coerce_float(e.timepoint_weeks),
                estimate |-> coerce_float(e.estimate),
                ci_low |-> IF ~IsNull(e.ci_low) THEN coerce_float(e.ci_low) ELSE NaN,
                ci_high |-> IF ~IsNull(e.ci_high) THEN coerce_float(e.ci_high) ELSE NaN,
                unit |-> e.unit]]

RECURSIVE AllRows(_)
\* lines 347-352: the rows of the first n documents, in path order; a document
\* whose load_effect_rows raises is reported and contributes nothing
AllRows(n) ==
    IF n = 0 THEN <<>>
    ELSE AllRows(n - 1) \o (IF LoadRaises(n) THEN <<>> ELSE load_effect_rows(n))

\* the two columns build_effects adds to a row
WithReadiness(r) ==
    [file |-> r.file, outcome |-> r.outcome, type |-> r.type,
     timepoint_weeks |-> r.timepoint_weeks, estimate |-> r.estimate,
     ci_low |-> r.ci_low, ci_high |-> r.ci_high, unit |-> r.unit,
     readiness |-> readiness_reason(JNum(r.estimate), JNum(r.ci_low), JNum(r.ci_high)),
     SE |-> se_from_ci(JNum(r.ci_low), JNum(r.ci_high))]

\* lines 359-363 on all the rows
WithReadinessAll(rows) == [i \in 1..Len(rows) |-> WithReadiness(rows[i])]

RECURSIVE RowsOfPaths(_, _)
\* lines 347-352 over the first n entries of paths
RowsOfPaths(paths, n) ==
    IF n = 0 THEN <<>>
    ELSE RowsOfPaths(paths, n - 1)
         \o (IF LoadRaises(paths[n]) THEN <<>> ELSE load_effect_rows(paths[n]))

\* resolve_json_paths(INPATH): sorted(glob(...)), every document in path order
resolve_json_paths == [i \in 1..Len(files) |-> i]

\* MetaAnalyzer.run() up to the end of build_effects(): the paths are resolved
\* again from INPATH, whatever the constructor was given
BuildEffects ==
    /\ pc = "imputed"
    /\ files # <<>>
    /\ json_paths' = resolve_json_paths
    /\ effects_df' = WithReadinessAll(AllRows(Len(files)))
    /\ pc' = "built"
    /\ UNCHANGED <<min_k, files, ci_files, pooled_df, out_csv, call, runs>>

\* a table not written yet, and a written one
NoCsv == [written |-> FALSE, rows |-> <<>>]
Csv(rows) == [written |-> TRUE, rows |-> rows]

\* the columns save_tables keeps in readiness.csv
ReadinessColumns(r) ==
    [file |-> r.file, outcome |-> r.outcome, type |-> r.type,
     timepoint_weeks |-> r.timepoint_weeks, readiness |-> r.readiness]

\* MetaAnalyzer.save_tables(): effects.csv is written first; selecting the
\* readiness columns of a DataFrame built from no rows (it has no columns)
\* raises KeyError, which nothing in run() catches
SaveTables ==
    /\ pc = "built"
    /\ IF effects_df = <<>>
       THEN /\ out_csv' = [out_csv EXCEPT !.effects = Csv(effects_df)]
            /\ pc' = "crashed"
       ELSE /\ out_csv' = [out_csv EXCEPT
                             !.effects = Csv(effects_df),
                             !.readiness = Csv([i \in 1..Len(effects_df) |->
                                                  ReadinessColumns(effects_df[i])])]
            /\ pc' = "saved"
    /\ UNCHANGED <<min_k, files, ci_files, effects_df, pooled_df, call, json_paths, runs>>

\* a unit_consistent that counts a blank unit as a unit of its own
unit_consistent_blank(group) ==
    LET named == SelectSeq(group, LAMBDA r : ~IsNull(r.unit))
        units == {named[i].unit : i \in 1..Len(named)}
    IN  IF Cardinality(units) <= 1
        THEN [ok |-> TRUE, unit |-> IF named # <<>> THEN named[1].unit ELSE JNull]
        ELSE [ok |-> FALSE, unit |-> JNull]

\* MetaAnalyzer.unit_consistent(group): the distinct non-null, non-blank units
\* in order of first appearance; [ok, unit]
unit_consistent(group) ==
    LET named == SelectSeq(group, LAMBDA r : ~IsNull(r.unit) /\ StrStrip(r.unit.s) # <<>>)
        units == {named[i].unit : i \in 1..Len(named)}
    IN  IF Cardinality(units) <= 1
        THEN [ok |-> TRUE, unit |-> IF named # <<>> THEN named[1].unit ELSE JNull]
        ELSE [ok |-> FALSE, unit |-> JNull]

\* a dersimonian_laird whose tau2 is not clamped at 0
dersimonian_laird_noclamp(ests, ses) ==
    LET k == Len(ests)
        idx == 1..k
        w == [i \in idx |-> FDiv(One, FMul(ses[i], ses[i]))]
        sum_w == FSum(w)
        fixed == FDiv(FSum([i \in idx |-> FMul(w[i], ests[i])]), sum_w)
        q == FSum([i \in idx |->
                     FMul(w[i], FMul(FSub(ests[i], fixed), FSub(ests[i], fixed)))])
        c == FSub(sum_w, FDiv(FSum([i \in idx |-> FMul(w[i], w[i])]), sum_w))
        tau2 == IF k <= 1 THEN Zero ELSE FDiv(FSub(q, Int2F(k - 1)), c)
        w_star == IF k <= 1 THEN w
                  ELSE [i \in idx |-> FDiv(One, FAdd(FMul(ses[i], ses[i]), tau2))]
        sum_ws == FSum(w_star)
        pooled == FDiv(FSum([i \in idx |-> FMul(w_star[i], ests[i])]), sum_ws)
        se_pooled == FSqrt(FDiv(One, sum_ws))
    IN  [pooled |-> pooled,
         ci_low |-> FSub(pooled, FMul(Z, se_pooled)),
         ci_high |-> FAdd(pooled, FMul(Z, se_pooled)),
         tau2 |-> tau2, I2 |-> Zero]

\* MetaAnalyzer.dersimonian_laird(ests, ses) on two arrays of one length
dersimonian_laird(ests, ses) ==
    LET k == Len(ests)
        idx == 1..k
        w == [i \in idx |-> FDiv(One, FMul(ses[i], ses[i]))]
        sum_w == FSum(w)
        fixed == FDiv(FSum([i \in idx |-> FMul(w[i], ests[i])]), sum_w)
        q == FSum([i \in idx |->
                     FMul(w[i], FMul(FSub(ests[i], fixed), FSub(ests[i], fixed)))])
        c == FSub(sum_w, FDiv(FSum([i \in idx |-> FMul(w[i], w[i])]), sum_w))
        tau2 == IF k <= 1 THEN Zero
                ELSE PyMax0(FDiv(FSub(q, Int2F(k - 1)), c))
        w_star == IF k <= 1 THEN w
                  ELSE [i \in idx |-> FDiv(One, FAdd(FMul(ses[i], ses[i]), tau2))]
        sum_ws == FSum(w_star)
        pooled == FDiv(FSum([i \in idx |-> FMul(w_star[i], ests[i])]), sum_ws)
        se_pooled == FSqrt(FDiv(One, sum_ws))
        I2 == IF k > 1 /\ FGt(q, Zero)
              THEN FMul(PyMax0(FDiv(FSub(q, Int2F(k - 1)), q)), Int2F(100))
              ELSE Zero
    IN  [pooled |-> pooled,
         ci_low |-> FSub(pooled, FMul(Z, se_pooled)),
         ci_high |-> FAdd(pooled, FMul(Z, se_pooled)),
         tau2 |-> tau2, I2 |-> I2]

RECURSIVE IntStr(_)
\* str(n) for n >= 0
IntStr(n) == IF n < 10 THEN Digits[n + 1] ELSE IntStr(n \div 10) \o Digits[(n % 10) + 1]

NoteOK == "OK"
NoteUnit == "Unit mismatch within group; skipping pooling"
NoteMinK(n) == "Less than min-k (" \o IntStr(n) \o "); skipping pooling"

\* the minimum group size pool_groups compares against: the global MIN_K
PoolMinK == MIN_K

\* a pool_groups that pools before it looks at the units: the row of a group
\* rejected for its units carries the pooled values
PoolRowOf_pooledfirst(key, k, uc, dl) ==
    IF ~uc.ok
    THEN [outcome |-> key[1], type |-> key[2], k |-> k,
          pooled |-> dl.pooled, ci_low |-> dl.ci_low, ci_high |-> dl.ci_high,
          tau2 |-> dl.tau2, I2 |-> dl.I2, unit |-> JNull, note |-> NoteUnit]
    ELSE [outcome |-> key[1], type |-> key[2], k |-> k,
          pooled |-> IF k < PoolMinK THEN NaN ELSE dl.pooled,
          ci_low |-> IF k < PoolMinK THEN NaN ELSE dl.ci_low,
          ci_high |-> IF k < PoolMinK THEN NaN ELSE dl.ci_high,
          tau2 |-> IF k < PoolMinK THEN NaN ELSE dl.tau2,
          I2 |-> IF k < PoolMinK THEN NaN ELSE dl.I2,
          unit |-> uc.unit,
          note |-> IF k < PoolMinK THEN NoteMinK(PoolMinK) ELSE NoteOK]

\* lines 389-430: the row appended for k Ready rows, given the result uc of
\* unit_consistent and the result dl of dersimonian_laird on them (dl is used
\* only on the branch that calls it)
PoolRowOf(key, k, uc, dl) ==
    LET skip(unit, note) ==
            [outcome |-> key[1], type |-> key[2], k |-> k,
             pooled |-> NaN, ci_low |-> NaN, ci_high |-> NaN, tau2 |-> NaN, I2 |-> NaN,
             unit |-> unit, note |-> note]
    IN  IF ~uc.ok THEN skip(JNull, NoteUnit)
        ELSE IF k < PoolMinK THEN skip(uc.unit, NoteMinK(PoolMinK))
        ELSE [outcome |-> key[1], type |-> key[2], k |-> k,
              pooled |-> dl.pooled, ci_low |-> dl.ci_low, ci_high |-> dl.ci_high,
              tau2 |-> dl.tau2, I2 |-> dl.I2, unit |-> uc.unit, note |-> NoteOK]

\* lines 388-430 on the Ready rows g_ready of one group
PoolReady(key, g_ready) ==
    PoolRowOf(key, Len(g_ready), unit_consistent(g_ready),
              dersimonian_laird([i \in 1..Len(g_ready) |-> g_ready[i].estimate],
                                [i \in 1..Len(g_ready) |-> g_ready[i].SE]))

\* a pool_groups that pools every record of the group, Ready or not
PoolRow_all(key, g) == PoolReady(key, g)

\* the pooled-summary row pool_groups appends for one group g (the rows of
\* effects_df with one (outcome, type) key)
PoolRow(key, g) ==
    PoolReady(key, SelectSeq(g, LAMBDA r :
                       r.readiness = "Ready" /\ ~IsNaN(r.estimate) /\ ~IsNaN(r.SE)))

\* the order groupby sorts its keys in: strings by code point, nulls last
JLess(x, y) ==
    IF IsNull(x) THEN FALSE ELSE IF IsNull(y) THEN TRUE ELSE StrLess(x.s, y.s)

KeyLess(a, b) == JLess(a[1], b[1]) \/ (a[1] = b[1] /\ JLess(a[2], b[2]))

RECURSIVE SortKeys(_)
SortKeys(S) ==
    IF S = {} THEN <<>>
    ELSE LET m == CHOOSE x \in S : \A y \in S \ {x} : KeyLess(x, y)
         IN  <<m>> \o SortKeys(S \ {m})

\* the keys of a groupby that drops the groups with a null key (dropna=True)
GroupKeys_dropna(df) ==
    SortKeys({k \in {<<df[i].outcome, df[i].type>> : i \in 1..Len(df)} :
                 ~IsNull(k[1]) /\ ~IsNull(k[2])})

\* effects_df.groupby(["outcome", "type"], dropna=False): the keys, sorted
GroupKeys(df) == SortKeys({<<df[i].outcome, df[i].type>> : i \in 1..Len(df)})

\* a grouping by the outcome alone: a group holds the records of every type
GroupOf_outcome(df, key) == SelectSeq(df, LAMBDA r : r.outcome = key[1])

GroupOf(df, key) == SelectSeq(df, LAMBDA r : <<r.outcome, r.type>> = key)

\* the loop of lines 384-430 over the sorted keys
PoolKeys(keys) == [j \in 1..Len(keys) |-> PoolRow(keys[j], GroupOf(effects_df, keys[j]))]

\* the record of a run that an analyzer constructed with the paths in the order
\* supplied has started, and that record once pool_groups has returned
OpenRun(supplied) == [supplied |-> supplied, done |-> FALSE, effects |-> <<>>, pooled |-> <<>>]
CloseRun(rs, effects, pooled) ==
    IF rs = <<>> THEN rs
    ELSE [rs EXCEPT ![Len(rs)] = [supplied |-> @.supplied, done |-> TRUE,
                                  effects |-> effects, pooled |-> pooled]]

\* MetaAnalyzer.pool_groups(): no group when effects_df is None or empty (and
\* then no pooled_summary.csv either)
PoolGroups ==
    /\ pc = "saved"
    /\ pooled_df' = PoolKeys(GroupKeys(effects_df))
    /\ out_csv' = IF effects_df = <<>> THEN out_csv
                  ELSE [out_csv EXCEPT !.pooled_summary = Csv(pooled_df')]
    /\ runs' = CloseRun(runs, effects_df, pooled_df')
    /\ pc' = "pooled"
    /\ UNCHANGED <<min_k, files, ci_files, effects_df, call, json_paths>>

-----------------------------------------------------------------------------
(* _impute_ci_from_raw *)

\* Python truth value of a JSON scalar
Truthy(x) ==
    IF x.t = "null" THEN FALSE
    ELSE IF x.t = "str" THEN x.s # <<>>
    ELSE ~IsZero(x.v)

\* x or y
PyOr(x, y) == IF Truthy(x) THEN x ELSE y

\* _f(x): float(x), or None (ok = FALSE) when float() raises
_f(x) == PyFloat(x)

\* int(s) on a str: an optional sign and digits, surrounding whitespace allowed
PyIntStr(s) ==
    LET t == StrStrip(s)
        signed == t # <<>> /\ t[1] \in {"+", "-"}
        sg == IF signed /\ t[1] = "-" THEN -1 ELSE 1
        body == IF signed THEN Tail(t) ELSE t
    IN  IF body # <<>> /\ AllDigits(body)
        THEN [ok |-> TRUE, v |-> sg * DigitsVal(body)]
        ELSE [ok |-> FALSE, v |-> 0]

\* int(v) on a finite float: truncation toward zero
Trunc(v) == Sign(v.n) * (Abs(v.n) \div v.d)

\* int(x) on a JSON scalar; it raises (ok = FALSE) on None, on a str that is no
\* integer literal, on NaN and on an infinity
PyInt(x) ==
    IF x.t = "num" THEN (IF IsFinite(x.v) THEN [ok |-> TRUE, v |-> Trunc(x.v)]
                         ELSE [ok |-> FALSE, v |-> 0])
    ELSE IF x.t = "str" THEN PyIntStr(x.s)
    ELSE [ok |-> FALSE, v |-> 0]

\* lines 52-56 given the outcome of int(x) and of _f(x)
IntOrFloat(int, flt) ==
    IF int.ok THEN [ok |-> TRUE, v |-> int.v, raises |-> FALSE]
    ELSE IF ~flt.ok THEN [ok |-> FALSE, v |-> 0, raises |-> FALSE]
    ELSE IF IsFinite(flt.v) THEN [ok |-> TRUE, v |-> Trunc(flt.v), raises |-> FALSE]
    ELSE [ok |-> FALSE, v |-> 0, raises |-> TRUE]

\* _i(x): int(x); when that raises, int(_f(x)) from inside the except clause,
\* where nothing catches a second exception (int(nan), int(inf)): raises = TRUE.
\* ok = FALSE without raises is None.
_i(x) == IntOrFloat(PyInt(x), _f(x))

control_tokens ==
    { <<"p","l","a","c","e","b","o">>,
      <<"c","o","n","t","r","o","l">>,
      <<"s","t","a","n","d","a","r","d"," ","c","a","r","e">>,
      <<"u","s","u","a","l"," ","c","a","r","e">>,
      <<"n","o"," ","t","r","e","a","t","m","e","n","t">>,
      <<"n","o","n","-","u","s","e">>,
      <<"n","o","n"," ","u","s","e">> }

intervention_tokens ==
    { <<"r","e","s","v","e","r","a","t","r","o","l">>,
      <<"m","e","t","f","o","r","m","i","n">> }

\* str(x or "").lower() for a label that is null or a str
LabelText(x) == IF Truthy(x) THEN StrLower(x.s) ELSE <<>>

\* _classify_arm(arm_name, exposure_label, comparator_label):
\* "control", "intervention" or "none" (None)
_classify_arm(arm_name, exposure_label, comparator_label) ==
    LET s == LabelText(arm_name)
        exp == LabelText(exposure_label)
        comp == LabelText(comparator_label)
        is_control == \E tok \in control_tokens : Contains(s, tok)
    IN  IF is_control \/ (comp # <<>> /\ Contains(s, comp)) THEN "control"
        ELSE IF exp # <<>> /\ Contains(s, exp) THEN "intervention"
        ELSE IF (\E tok \in intervention_tokens : Contains(s, tok)) /\ ~is_control
             THEN "intervention"
        ELSE "none"

RECURSIVE Dedupe(_)
\* the distinct elements of a sequence in order of first appearance (the key
\* order of a dict filled by setdefault)
Dedupe(xs) ==
    IF xs = <<>> THEN <<>>
    ELSE LET front == Dedupe(SubSeq(xs, 1, Len(xs) - 1))
             last == xs[Len(xs)]
         IN  IF \E i \in 1..Len(front) : front[i] = last THEN front ELSE Append(front, last)

\* round(x, 4) on a float: to the nearest multiple of 1/10000, ties to even
Round4(x) ==
    IF ~IsFinite(x) THEN x
    ELSE LET t == x.n * 10000
             q == t \div x.d
             r == t % x.d
         IN  IF 2 * r < x.d THEN Fin(q, 10000)
             ELSE IF 2 * r > x.d THEN Fin(q + 1, 10000)
             ELSE Fin(IF q % 2 = 0 THEN q ELSE q + 1, 10000)

RECURSIVE ScanArm(_, _, _)
RECURSIVE ScanRow(_, _, _, _)
\* the "best" row of one arm: the first with mean, sd and n all not None;
\* "raise" when _i raises on a row examined before it
ScanArm(lst, mean_key, sd_key) ==
    IF lst = <<>> THEN [kind |-> "none", row |-> <<>>]
    ELSE ScanRow(lst, mean_key, sd_key, _i(lst[1].n))

\* line 96 on the first row of lst, n being _i of its "n"
ScanRow(lst, mean_key, sd_key, n) ==
    IF n.raises THEN [kind |-> "raise", row |-> <<>>]
    ELSE IF _f(lst[1][mean_key]).ok /\ _f(lst[1][sd_key]).ok /\ n.ok
         THEN [kind |-> "row", row |-> lst[1]]
    ELSE ScanArm(Tail(lst), mean_key, sd_key)

NoPair == [kind |-> "none", est |-> NaN, lo |-> NaN, hi |-> NaN, unit |-> JNull]
PairRaises == [kind |-> "raise", est |-> NaN, lo |-> NaN, hi |-> NaN, unit |-> JNull]

\* lines 143-146 for a mean difference md and the radicand of its se
MeanDifferenceCI(md, radicand, unit) ==
    IF IsFinite(radicand) /\ radicand.n < 0 THEN PairRaises
    ELSE [kind |-> "ok", est |-> md,
          lo |-> FSub(md, FMul(Z, FSqrt(radicand))),
          hi |-> FAdd(md, FMul(Z, FSqrt(radicand))),
          unit |-> unit]

\* lines 143-146 for the means, sds and ns of the two rows
MeanDifference(m1, s1, n1, m0, s0, n0, unit) ==
    IF n1 = 0 \/ n0 = 0 THEN PairRaises
    ELSE MeanDifferenceCI(FSub(m1, m0),
                          FAdd(FDiv(FMul(s1, s1), Int2F(n1)), FDiv(FMul(s0, s0), Int2F(n0))),
                          unit)

\* lines 138-146 of _pair_stats: the mean difference of intervention row a and
\* control row b and its CI.  Dividing by n = 0 raises ZeroDivisionError; a
\* negative radicand makes se complex, and round() of the bounds then raises
\* TypeError in the caller.
PairResult(a, b, mean_key, sd_key) ==
    MeanDifference(_f(a[mean_key]).v, _f(a[sd_key]).v, _i(a.n).v,
                   _f(b[mean_key]).v, _f(b[sd_key]).v, _i(b.n).v,
                   PyOr(a.units, b.units))

\* lines 85-90: the arm names (the keys of by_arm) in order of first appearance;
\* a row whose arm_name is no str is skipped
ArmNames(rows) ==
    Dedupe([i \in 1..Len(SelectSeq(rows, LAMBDA r : r.arm_name.t = "str")) |->
               SelectSeq(rows, LAMBDA r : r.arm_name.t = "str")[i].arm_name])

\* lines 93-101: the scan of the rows of each arm
ArmScans(rows, by_arm, mean_key, sd_key) ==
    [i \in 1..Len(by_arm) |->
        ScanArm(SelectSeq(rows, LAMBDA r : r.arm_name = by_arm[i]), mean_key, sd_key)]

\* the dict arms: the arms that have a best row, in order
UsableArms(by_arm, scans) ==
    LET idx == SelectSeq([i \in 1..Len(by_arm) |-> i], LAMBDA i : scans[i].kind = "row")
    IN  [j \in 1..Len(idx) |-> [arm |-> by_arm[idx[j]], row |-> scans[idx[j]].row]]

NoRows == [found |-> FALSE, a |-> <<>>, b |-> <<>>]

\* lines 107-136: the intervention row a and the control row b, tags[j] being
\* the tag of arm j (a later arm with the same tag replaces an earlier one);
\* with exactly two arms and one tag missing, an arm tagged control is the
\* control and the other arm the intervention
ChoosePair(arms, tags) ==
    LET has(t) == \E j \in 1..Len(arms) : tags[j] = t
        last(t) == arms[CHOOSE j \in 1..Len(arms) :
                          tags[j] = t /\ \A j2 \in 1..Len(arms) : tags[j2] = t => j2 <= j]
    IN  IF has("intervention") /\ has("control")
        THEN [found |-> TRUE, a |-> last("intervention").row, b |-> last("control").row]
        ELSE IF Len(arms) = 2
             THEN (IF tags[1] = "control"
                   THEN [found |-> TRUE, a |-> arms[2].row, b |-> arms[1].row]
                   ELSE IF tags[2] = "control"
                        THEN [found |-> TRUE, a |-> arms[1].row, b |-> arms[2].row]
                   ELSE NoRows)
        ELSE NoRows

\* lines 133-146 for the chosen pair
PairOrNone(pair, mean_key, sd_key) ==
    IF pair.found THEN PairResult(pair.a, pair.b, mean_key, sd_key) ELSE NoPair

\* lines 103-146 on the dict arms
PairOfArms(arms, exposure_label, comparator_label, mean_key, sd_key) ==
    IF Len(arms) < 2 THEN NoPair
    ELSE PairOrNone(ChoosePair(arms, [j \in 1..Len(arms) |->
                        _classify_arm(arms[j].arm, exposure_label, comparator_label)]),
                    mean_key, sd_key)

\* lines 93-146 given the scans: an exception of _i in the scan ends the call
PairOfScans(by_arm, scans, exposure_label, comparator_label, mean_key, sd_key) ==
    IF \E i \in 1..Len(by_arm) : scans[i].kind = "raise" THEN PairRaises
    ELSE PairOfArms(UsableArms(by_arm, scans), exposure_label, comparator_label,
                    mean_key, sd_key)

\* lines 91-146 given the arm names
PairOfNames(rows, by_arm, exposure_label, comparator_label, mean_key, sd_key) ==
    PairOfScans(by_arm, ArmScans(rows, by_arm, mean_key, sd_key),
                exposure_label, comparator_label, mean_key, sd_key)

\* _pair_stats(rows, exposure_label, comparator_label, mean_key, sd_key)
_pair_stats(rows, exposure_label, comparator_label, mean_key, sd_key) ==
    PairOfNames(rows, ArmNames(rows), exposure_label, comparator_label, mean_key, sd_key)

s_followup_mean == "followup_mean"
s_followup_sd == "followup_sd"
s_change_mean == "change_mean"
s_change_sd == "change_sd"

\* " [CI imputed from raw (unadjusted)]"
NoteImputed ==
    <<" ","[","C","I"," ","i","m","p","u","t","e","d"," ","f","r","o","m"," ",
      "r","a","w"," ","(","u","n","a","d","j","u","s","t","e","d",")","]">>

\* "Effect computed from raw (unadjusted)"
NoteComputed ==
    <<"E","f","f","e","c","t"," ","c","o","m","p","u","t","e","d"," ","f","r","o","m"," ",
      "r","a","w"," ","(","u","n","a","d","j","u","s","t","e","d",")">>

\* a fill that writes the computed estimate over the stored one
FillEffect_overwrite(e, res) ==
    [e EXCEPT !.ci_low = JNum(Round4(res.lo)),
              !.ci_high = JNum(Round4(res.hi)),
              !.estimate = JNum(Round4(res.est)),
              !.unit = PyOr(e.unit, res.unit),
              !.notes = JStr((IF Truthy(e.notes) THEN e.notes.s ELSE <<>>) \o NoteImputed)]

\* lines 188-194: the record e with the imputed interval filled in
FillEffect(e, res) ==
    [e EXCEPT !.ci_low = JNum(Round4(res.lo)),
              !.ci_high = JNum(Round4(res.hi)),
              !.estimate = IF IsNull(e.estimate) THEN JNum(Round4(res.est)) ELSE e.estimate,
              !.unit = PyOr(e.unit, res.unit),
              !.notes = JStr((IF Truthy(e.notes) THEN e.notes.s ELSE <<>>) \o NoteImputed)]

\* lines 201-206: the record appended when none was filled
NewEffect(name, tp, res) ==
    Effect(name, JStr(s_MD), tp, JNum(Round4(res.est)), JNum(Round4(res.lo)),
           JNum(Round4(res.hi)), res.unit, JStr(NoteComputed))

\* whether record e is the one the loop of lines 185-197 fills for group (name,
\* tp); e.get (line 186) raises AttributeError on an entry that is no object
Fillable(e, name, tp) ==
    /\ IsObjectEntry(e)
    /\ e.name = name
    /\ e.timepoint_weeks = tp
    /\ IsNull(e.ci_low)
    /\ IsNull(e.ci_high)

\* a loop that takes the change-score result whenever there is one
FirstPair_change(followup, change) == IF change.kind = "none" THEN followup ELSE change

\* lines 175-177: the follow-up result unless it is None, else the change-score
\* result (which is computed only then)
FirstPair(followup, change) == IF followup.kind = "none" THEN change ELSE followup

\* lines 178-208 given the result res of _pair_stats
Attach(efs, name, tp, res) ==
    IF res.kind = "raise" THEN [kind |-> "raise", efs |-> efs]
    ELSE IF res.kind = "none" THEN [kind |-> "skip", efs |-> efs]
    ELSE IF \E i \in 1..Len(efs) :
               /\ ~IsObjectEntry(efs[i])
               /\ \A j \in 1..(i - 1) : ~Fillable(efs[j], name, tp)
         THEN [kind |-> "raise", efs |-> efs]
    ELSE IF \E i \in 1..Len(efs) : Fillable(efs[i], name, tp)
         THEN LET i == CHOOSE j \in 1..Len(efs) :
                           /\ Fillable(efs[j], name, tp)
                           /\ \A j2 \in 1..(j - 1) : ~Fillable(efs[j2], name, tp)
              IN  [kind |-> "changed", efs |-> [efs EXCEPT ![i] = FillEffect(efs[i], res)]]
    ELSE [kind |-> "changed", efs |-> Append(efs, NewEffect(name, tp, res))]

\* lines 173-208 for one (name, tp) group: the effects list afterwards
ImputeGroup(efs, name, tp, rows, exp, comp) ==
    Attach(efs, name, tp,
           FirstPair(_pair_stats(rows, exp, comp, s_followup_mean, s_followup_sd),
                     _pair_stats(rows, exp, comp, s_change_mean, s_change_sd)))

RECURSIVE ImputeGroups(_, _, _, _)
RECURSIVE AfterGroup(_, _, _, _, _)
\* the loop over the groups of one document, in key order: [kind, efs] with
\* kind "raise", "changed" or "same"
ImputeGroups(doc, keys, efs, changed) ==
    IF keys = <<>> THEN [kind |-> IF changed THEN "changed" ELSE "same", efs |-> efs]
    ELSE AfterGroup(doc, keys, efs, changed,
                    ImputeGroup(efs, keys[1][1], keys[1][2],
                                SelectSeq(doc.outcomes_raw,
                                          LAMBDA r : <<r.name, r.timepoint_weeks>> = keys[1]),
                                doc.exposure.label, doc.exposure.comparator))

\* the rest of the loop after the group keys[1] gave g
AfterGroup(doc, keys, efs, changed, g) ==
    IF g.kind = "raise" THEN [kind |-> "raise", efs |-> efs]
    ELSE ImputeGroups(doc, Tail(keys), g.efs, changed \/ g.kind = "changed")

\* the document as it stands in memory after the loop gave r
DocAfter(doc, r) == [kind |-> r.kind, doc |-> [doc EXCEPT !.effects_by_outcome = r.efs]]

\* lines 150-214 for one document: [kind, doc].  A file json.load rejects is
\* passed over (lines 151-154); on JSON that is no object, data.get (line 156)
\* raises AttributeError outside the try
ImputeDoc(doc) ==
    LET raw == doc.outcomes_raw
        keys == Dedupe([i \in 1..Len(raw) |-> <<raw[i].name, raw[i].timepoint_weeks>>])
    IN  IF doc.json = "invalid" THEN [kind |-> "same", doc |-> doc]
        ELSE IF doc.json # "object" THEN [kind |-> "raise", doc |-> doc]
        ELSE DocAfter(doc, ImputeGroups(doc, keys, doc.effects_by_outcome, FALSE))

NoCopy == [written |-> FALSE, doc |-> Doc(<<>>, <<>>, NoExposure)]
Copy(doc) == [written |-> TRUE, doc |-> doc]

\* lines 209-214: the pass after one more document gave r (nothing more
\* happens once an exception has ended the pass)
AfterFile(before, r) ==
    IF before.crashed THEN [before EXCEPT !.copies = Append(@, NoCopy)]
    ELSE IF r.kind = "raise"
         THEN [crashed |-> TRUE, copies |-> Append(before.copies, NoCopy)]
    ELSE IF r.kind = "changed"
         THEN [crashed |-> FALSE, copies |-> Append(before.copies, Copy(r.doc))]
    ELSE [crashed |-> FALSE, copies |-> Append(before.copies, NoCopy)]

\* a pass that writes each changed document over the file it was read from
outp_inplace(p) == [dir |-> "input", name |-> p]

\* line 210: the file a changed document is written to, the input's base name
\* under OUTDIR/ci_imputed
outp(p) == [dir |-> "ci_imputed", name |-> p]

RECURSIVE ImputeFiles(_)
\* the loop over json_paths up to file n: whether an exception ended the pass,
\* and the copies written so far
ImputeFiles(n) ==
    IF n = 0 THEN [crashed |-> FALSE, copies |-> <<>>]
    ELSE AfterFile(ImputeFiles(n - 1), ImputeDoc(files[n]))

\* __main__, lines 485-486: _impute_ci_from_raw(json_paths, OUTDIR); an
\* exception it lets through ends the script
ImputeCiFromRaw ==
    /\ pc = "main"
    /\ \E pass \in {ImputeFiles(Len(files))} :
          /\ ci_files' = [i \in 1..Len(files) |->
                            IF outp(i).dir = "ci_imputed" THEN pass.copies[i] ELSE NoCopy]
          /\ files' = [i \in 1..Len(files) |->
                         IF outp(i).dir = "input" /\ pass.copies[i].written
                         THEN pass.copies[i].doc ELSE files[i]]
          /\ pc' = IF pass.crashed THEN "crashed" ELSE "imputed"
    /\ UNCHANGED <<min_k, effects_df, pooled_df, out_csv, call, json_paths, runs>>

MaxPasses == 2

RECURSIVE RepassFiles(_)
\* the loop over json_paths when they are the copies under OUTDIR/ci_imputed
\* that an earlier pass wrote, up to copy n
RepassFiles(n) ==
    IF n = 0 THEN [crashed |-> FALSE, copies |-> <<>>]
    ELSE IF ~ci_files[n].written
         THEN [RepassFiles(n - 1) EXCEPT !.copies = Append(@, NoCopy)]
    ELSE AfterFile(RepassFiles(n - 1), ImputeDoc(ci_files[n].doc))

\* _impute_ci_from_raw(copies, OUTDIR) on the copies of an earlier pass: a
\* changed copy is written over itself (outp is the path it was read from);
\* call.records keeps the copies as each such pass found them
ImputeCopies ==
    /\ pc = "imputed"
    /\ Len(call.records) < MaxPasses
    /\ \E pass \in {RepassFiles(Len(ci_files))} :
          /\ ci_files' = [i \in 1..Len(ci_files) |->
                            IF pass.copies[i].written THEN pass.copies[i] ELSE ci_files[i]]
          /\ pc' = IF pass.crashed THEN "crashed" ELSE "imputed"
    /\ call' = [call EXCEPT !.fn = "_impute_ci_from_raw", !.records = Append(@, ci_files)]
    /\ UNCHANGED <<min_k, files, effects_df, pooled_df, out_csv, json_paths, runs>>

\* MetaAnalyzer.run(), lines 464-467: no JSON under INPATH, nothing to do
RunNoFiles ==
    /\ pc = "imputed"
    /\ files = <<>>
    /\ pc' = "done"
    /\ UNCHANGED <<min_k, files, ci_files, effects_df, pooled_df, out_csv, call, json_paths, runs>>

-----------------------------------------------------------------------------
(* Hedges' g synthesis from an arm pair (VarianceResolver); an arm is
   [m, s, n]: mean and sd as floats, n an integer *)

s_SD_units == <<"S","D"," ","u","n","i","t","s">>

NoRecord ==
    [kind |-> "fail", g |-> NaN, ci_low |-> NaN, ci_high |-> NaN,
     type |-> JNull, unit |-> JNull]

\* the record for g with standard error se: CI = g -+ Z SE, type SMD, unit
\* "SD units"
HedgesRecord(g, se) ==
    [kind |-> "ok", g |-> g, ci_low |-> FSub(g, FMul(Z, se)),
     ci_high |-> FAdd(g, FMul(Z, se)), type |-> JStr(s_SMD), unit |-> JStr(s_SD_units)]

\* g = J d and Var(g) = J^2 ((n1 + n0) / (n1 n0) + d^2 / (2 df))
HedgesOf(a1, a0, df, d, J) ==
    HedgesRecord(FMul(J, d),
                 FSqrt(FMul(FMul(J, J),
                            FAdd(Fin(a1.n + a0.n, a1.n * a0.n),
                                 FDiv(FMul(d, d), Int2F(2 * df))))))

\* d = (m1 - m0) / sqrt(sp2) and J = 1 - 3 / (4 df - 1)
HedgesPooled(a1, a0, df, sp2) ==
    HedgesOf(a1, a0, df, FDiv(FSub(a1.m, a0.m), FSqrt(sp2)), Fin(4 * df - 4, 4 * df - 1))

\* sp2 = ((n1 - 1) s1^2 + (n0 - 1) s0^2) / df
PooledVariance(a1, a0, df) ==
    FDiv(FAdd(FMul(Int2F(a1.n - 1), FMul(a1.s, a1.s)),
              FMul(Int2F(a0.n - 1), FMul(a0.s, a0.s))), Int2F(df))

\* a synthesis that goes on when the pooled variance is 0
hedges_g_anyvariance(a1, a0) ==
    IF a1.n + a0.n - 2 <= 0 THEN NoRecord
    ELSE HedgesPooled(a1, a0, a1.n + a0.n - 2, PooledVariance(a1, a0, a1.n + a0.n - 2))

\* the synthesis for intervention arm a1 and control arm a0: no record when
\* df <= 0 or sp2 <= 0
hedges_g(a1, a0) ==
    IF a1.n + a0.n - 2 <= 0 THEN NoRecord
    ELSE IF ~FGt(PooledVariance(a1, a0, a1.n + a0.n - 2), Zero) THEN NoRecord
    ELSE HedgesPooled(a1, a0, a1.n + a0.n - 2, PooledVariance(a1, a0, a1.n + a0.n - 2))

\* the records synthesized for a batch of arm pairs, [pair, rec]: a pair whose
\* synthesis fails gives none, the pairs after it are still tried
Synthesize(pairs) ==
    SelectSeq([i \in 1..Len(pairs) |-> [pair |-> i, rec |-> hedges_g(pairs[i][1], pairs[i][2])]],
              LAMBDA r : r.rec.kind = "ok")

-----------------------------------------------------------------------------
(* Analyzers constructed by a caller, run more than once *)

MaxRuns == 2

\* a list with x put after the entries not greater than x
Insert(x, s) ==
    LET k == Cardinality({i \in 1..Len(s) : s[i] <= x})
    IN  SubSeq(s, 1, k) \o <<x>> \o SubSeq(s, k + 1, Len(s))

\* a constructor that keeps the paths in the order given
sorted_asgiven(s) == s

RECURSIVE sorted(_)
\* sorted(json_paths) of line 262
sorted(s) == IF s = <<>> THEN <<>> ELSE Insert(Head(s), sorted(Tail(s)))

\* the orders in which the paths of n documents can be supplied
Orders(n) == {o \in [1..n -> 1..n] : \A i, j \in 1..n : o[i] = o[j] => i = j}

\* MetaAnalyzer(json_paths=supplied, outdir, min_k), lines 261-270; what an
\* earlier run wrote under OUTDIR stays there
Construct ==
    /\ pc \in {"new", "pooled"}
    /\ Len(runs) < MaxRuns
    /\ \E supplied \in Orders(Len(files)) :
          /\ json_paths' = sorted(supplied)
          /\ runs' = Append(runs, OpenRun(supplied))
    /\ effects_df' = <<>>
    /\ pooled_df' = <<>>
    /\ pc' = "constructed"
    /\ UNCHANGED <<min_k, files, ci_files, out_csv, call>>

\* the analyzer of the run before is used again, with the tables it holds
Reuse ==
    /\ pc = "pooled"
    /\ runs # <<>>
    /\ Len(runs) < MaxRuns
    /\ runs' = Append(runs, OpenRun(runs[Len(runs)].supplied))
    /\ pc' = "constructed"
    /\ UNCHANGED <<min_k, files, ci_files, effects_df, pooled_df, out_csv, call, json_paths>>

\* build_effects() called on the analyzer: the documents of self.json_paths
CallBuildEffects ==
    /\ pc = "constructed"
    /\ effects_df' = WithReadinessAll(RowsOfPaths(json_paths, Len(json_paths)))
    /\ pc' = "built"
    /\ UNCHANGED <<min_k, files, ci_files, pooled_df, out_csv, call, json_paths, runs>>

\* run() called on the analyzer
CallRun ==
    /\ pc = "constructed"
    /\ pc' = "imputed"
    /\ UNCHANGED <<min_k, files, ci_files, effects_df, pooled_df, out_csv, call, json_paths, runs>>

-----------------------------------------------------------------------------
(* Direct calls of the module's functions *)

NoCall ==
    [fn |-> "none", estimate |-> JNull, ci_low |-> JNull, ci_high |-> JNull,
     ests |-> <<>>, ses |-> <<>>, res |-> NaN, label |-> JNull, code |-> JNull,
     pairs |-> <<>>, records |-> <<>>]

\* se_from_ci(ci_low, ci_high) called on the drawn arguments
CallSeFromCi ==
    /\ pc = "call"
    /\ call.fn = "scalars"
    /\ call' = [call EXCEPT !.fn = "se_from_ci",
                            !.res = se_from_ci(call.ci_low, call.ci_high)]
    /\ UNCHANGED <<pc, min_k, files, ci_files, effects_df, pooled_df, out_csv, json_paths, runs>>

\* MetaAnalyzer.readiness_reason(estimate, ci_low, ci_high) called on the drawn
\* arguments
CallReadinessReason ==
    /\ pc = "call"
    /\ call.fn = "scalars"
    /\ call' = [call EXCEPT !.fn = "readiness_reason",
                            !.res = readiness_reason(call.estimate, call.ci_low,
                                                     call.ci_high)]
    /\ UNCHANGED <<pc, min_k, files, ci_files, effects_df, pooled_df, out_csv, json_paths, runs>>

\* MetaAnalyzer.dersimonian_laird(ests, ses) called on the drawn arrays
CallDersimonianLaird ==
    /\ pc = "call"
    /\ call.fn = "arrays"
    /\ call' = [call EXCEPT !.fn = "dersimonian_laird",
                            !.res = dersimonian_laird(call.ests, call.ses)]
    /\ UNCHANGED <<pc, min_k, files, ci_files, effects_df, pooled_df, out_csv, json_paths, runs>>

\* the synthesis over a batch of arm pairs, called on the drawn pairs
CallSynthesize ==
    /\ pc = "call"
    /\ call.fn = "pairs"
    /\ call' = [call EXCEPT !.fn = "synthesize", !.records = Synthesize(call.pairs)]
    /\ UNCHANGED <<pc, min_k, files, ci_files, effects_df, pooled_df, out_csv, json_paths, runs>>

\* normalize_type(t) called on the drawn label
CallNormalizeType ==
    /\ pc = "call"
    /\ call.fn = "label"
    /\ call' = [call EXCEPT !.fn = "normalize_type", !.code = normalize_type(call.label)]
    /\ UNCHANGED <<pc, min_k, files, ci_files, effects_df, pooled_df, out_csv, json_paths, runs>>

-----------------------------------------------------------------------------
(* Inputs and specifications *)

\* sequences over S of length at most n
SeqsUpTo(S, n) == UNION {[1..m -> S] : m \in 0..n}

s_HbA1c == <<"H","b","A","1","c">>
s_md == <<"m","d">>
s_mg == <<"m","g">>
s_g == <<"g">>

\* the state before __main__ starts: documents fs under INPATH, an analyzer to
\* be constructed with min_k = k
InitRun(fs, k) ==
    /\ pc = "main"
    /\ min_k = k
    /\ files = fs
    /\ ci_files = <<>>
    /\ effects_df = <<>>
    /\ pooled_df = <<>>
    /\ out_csv = [effects |-> NoCsv, readiness |-> NoCsv, pooled_summary |-> NoCsv]
    /\ call = NoCall
    /\ json_paths = <<>>
    /\ runs = <<>>

\* the state before a direct call with arguments c
InitCall(c) ==
    /\ pc = "call"
    /\ min_k = MIN_K
    /\ files = <<>>
    /\ ci_files = <<>>
    /\ effects_df = <<>>
    /\ pooled_df = <<>>
    /\ out_csv = [effects |-> NoCsv, readiness |-> NoCsv, pooled_summary |-> NoCsv]
    /\ call = c
    /\ json_paths = <<>>
    /\ runs = <<>>

\* one study document per effect record, no raw arm rows
OnePerFile(recs) == [i \in 1..Len(recs) |-> Doc(<<recs[i]>>, <<>>, NoExposure)]

\* the script: __main__ then MetaAnalyzer.run()
Next ==
    \/ ImputeCiFromRaw
    \/ RunNoFiles
    \/ BuildEffects
    \/ SaveTables
    \/ PoolGroups

(* Labels for normalize_type: null; every alias key and some texts that are no
   key (codes, a key with a doubled inner blank, a key spelled with another
   apostrophe, the empty text), each in upper case, lower case and capitalised,
   with up to MaxPad blanks before and after *)
MaxPad == 1

Spaces(n) == [i \in 1..n |-> " "]
Capitalised(s) == IF s = <<>> THEN s ELSE <<s[1]>> \o StrLower(Tail(s))

OtherLabels ==
    {s_MD, s_SMD, s_LOGRR, <<"X","Y","Z">>, <<"N","/","A">>, <<>>,
     <<"H","E","D","G","E","S","'"," ","G">>,
     <<"R","I","S","K"," "," ","R","A","T","I","O">>,
     <<"L","O","G"," ","R","R">>}

TypeLabels ==
    {JNull} \cup
    {JStr(Spaces(n) \o x \o Spaces(m)) :
        n \in 0..MaxPad, m \in 0..MaxPad,
        x \in UNION {{k, StrLower(k), Capitalised(k)} :
                        k \in {a[1] : a \in aliases} \cup OtherLabels}}

InitTypes == \E t \in TypeLabels : InitCall([NoCall EXCEPT !.fn = "label", !.label = t])

NextTypes == CallNormalizeType

SpecTypes == InitTypes /\ [][NextTypes]_vars

(* Arm pairs for the synthesis: a batch of two pairs; an intervention arm with
   mean 0 or 1, a control arm with mean 0, each sd 0 or 1 and n in 1..MaxArmN *)
MaxArmN == 2

ArmPairs ==
    {<<[m |-> Int2F(m1), s |-> Int2F(s1), n |-> n1], [m |-> Zero, s |-> Int2F(s0), n |-> n0]>> :
        m1 \in {0, 1}, s1 \in {0, 1}, s0 \in {0, 1}, n1 \in 1..MaxArmN, n0 \in 1..MaxArmN}

InitHedges ==
    \E p1 \in ArmPairs, p2 \in ArmPairs :
        InitCall([NoCall EXCEPT !.fn = "pairs", !.pairs = <<p1, p2>>])

NextHedges == CallSynthesize

SpecHedges == InitHedges /\ [][NextHedges]_vars

(* Scalars for the direct calls: null, blank and unparsable text, numeric text,
   NaN and the infinities (as JSON literals and as text), small integers *)
MaxNum == 1

Scalars ==
    {JNull, JStr(<<>>), JStr(<<" ">>), JStr(<<"n","/","a">>), JStr(<<"1",".","5">>),
     JStr(<<" ","-","2">>), JStr(s_inf), JStr(s_nan), JNum(NaN), JNum(PInf), JNum(NInf)}
    \cup {JNum(Int2F(i)) : i \in (-MaxNum)..MaxNum}

InitFn ==
    \E e \in Scalars, lo \in Scalars, hi \in Scalars :
        InitCall([NoCall EXCEPT !.fn = "scalars", !.estimate = e,
                                !.ci_low = lo, !.ci_high = hi])

NextFn == CallSeFromCi \/ CallReadinessReason

SpecFn == InitFn /\ [][NextFn]_vars

(* Documents for the pooling arithmetic: up to PoolRecords records of one
   (outcome, type) group and one unit, one per study; the estimate is missing or
   a small integer, each CI bound is missing or a multiple of 1.96 (so that
   SE = (hi - lo) / 3.92 is a multiple of 1/2; equal bounds give SE = 0) *)
PoolRecords == 2
MaxCi == 1

PoolEstimates == {JNull} \cup {JNum(Int2F(i)) : i \in 0..MaxNum}
PoolBounds == {JNull} \cup {JNum(FMul(Int2F(i), Z)) : i \in (-MaxCi)..MaxCi}

PoolEffects ==
    {Effect(JStr(s_HbA1c), JStr(s_md), JNull, e, lo, hi, JStr(s_mg), JNull) :
        e \in PoolEstimates, lo \in PoolBounds, hi \in PoolBounds}

InitPool ==
    \E recs \in SeqsUpTo(PoolEffects, PoolRecords) : InitRun(OnePerFile(recs), MIN_K)

SpecPool == InitPool /\ [][Next]_vars

\* a record that is Ready (estimate e, CI e -+ 1.96, SE = 1) and one that is not
\* (no CI), for outcome name, type label type and unit
ReadyEffect(name, type, e, unit) ==
    Effect(name, type, JNull, JNum(Int2F(e)), JNum(FSub(Int2F(e), Z)),
           JNum(FAdd(Int2F(e), Z)), unit, JNull)
NotReadyEffect(name, type, e, unit) ==
    Effect(name, type, JNull, JNum(Int2F(e)), JNull, JNull, unit, JNull)

\* the documents holding records recs: one document for all of them, or one
\* document per record
Layouts(recs) == {<<Doc(recs, <<>>, NoExposure)>>, OnePerFile(recs)}

(* Documents for the grouping: up to GroupRecords records over two outcome
   names (one null), three type labels (null, and two spellings of MD), Ready
   or not, with one of two units *)
GroupRecords == 2

GroupNames == {JNull, JStr(s_HbA1c)}
GroupTypes == {JNull, JStr(s_md), JStr(<<"M","D"," ">>)}

GroupEffects ==
    {ReadyEffect(n, t, 0, u) : n \in GroupNames, t \in GroupTypes, u \in {JStr(s_mg), JStr(s_g)}}
    \cup {NotReadyEffect(n, t, 0, u) :
             n \in GroupNames, t \in GroupTypes, u \in {JStr(s_mg), JStr(s_g)}}

InitGroups ==
    \E recs \in SeqsUpTo(GroupEffects, GroupRecords) :
        \E fs \in Layouts(recs) : InitRun(fs, MIN_K)

SpecGroups == InitGroups /\ [][Next]_vars

(* Documents for the unit check: up to UnitRecords records of one (outcome,
   type) group, Ready with estimate 0 or 1 or not Ready, the unit null, blank,
   "mg" or "g" *)
UnitRecords == 3

UnitValues == {JNull, JStr(<<" ">>), JStr(s_mg), JStr(s_g)}

UnitEffects ==
    {ReadyEffect(JStr(s_HbA1c), JStr(s_md), e, u) : e \in {0, 1}, u \in UnitValues}
    \cup {NotReadyEffect(JStr(s_HbA1c), JStr(s_md), 1, u) : u \in UnitValues}

InitUnits ==
    \E recs \in SeqsUpTo(UnitEffects, UnitRecords) : InitRun(OnePerFile(recs), MIN_K)

SpecUnits == InitUnits /\ [][Next]_vars

(* Documents for the minimum group size: an analyzer constructed with
   min_k in 1..MaxMinK, up to MinKRecords records of one group and one unit *)
MaxMinK == 3
MinKRecords == 3

MinKEffects ==
    {ReadyEffect(JStr(s_HbA1c), JStr(s_md), e, JStr(s_mg)) : e \in {0, 1}}
    \cup {NotReadyEffect(JStr(s_HbA1c), JStr(s_md), 1, JStr(s_mg))}

InitMinK ==
    \E recs \in SeqsUpTo(MinKEffects, MinKRecords), k \in 1..MaxMinK :
        InitRun(OnePerFile(recs), k)

SpecMinK == InitMinK /\ [][Next]_vars

(* Documents for repeated runs: RunDocs documents of one record each, of one
   group and one unit, Ready with estimate 0 or 1 or not Ready; analyzers are
   constructed with the paths in any order and min_k in 1..MaxMinK, and used
   through build_effects() or through run() *)
RunDocs == 2

InitRuns ==
    \E recs \in [1..RunDocs -> MinKEffects], k \in 1..MaxMinK :
        /\ pc = "new"
        /\ min_k = k
        /\ files = OnePerFile(recs)
        /\ ci_files = <<>>
        /\ effects_df = <<>>
        /\ pooled_df = <<>>
        /\ out_csv = [effects |-> NoCsv, readiness |-> NoCsv, pooled_summary |-> NoCsv]
        /\ call = NoCall
        /\ json_paths = <<>>
        /\ runs = <<>>

NextRuns ==
    \/ Construct
    \/ Reuse
    \/ CallBuildEffects
    \/ CallRun
    \/ BuildEffects
    \/ SaveTables
    \/ PoolGroups

SpecRuns == InitRuns /\ [][NextRuns]_vars

(* Documents for the imputation pass: no document, or one document whose raw
   rows are a metformin and a placebo arm of HbA1c at 12 weeks (follow-up means
   5 and 6, sd 2, n 8: md = -1, SE = 1, CI = -1 -+ 1.96), with units "g" or
   without units, and up to ImputeRecords effect records of HbA1c: at 12 weeks
   with the estimate missing or 5, the CI missing, half missing or (0, 1), the
   unit null, empty or "mg"; or at no timepoint with nothing filled in *)
ImputeRecords == 2

s_metformin == <<"m","e","t","f","o","r","m","i","n">>
s_placebo == <<"p","l","a","c","e","b","o">>
Weeks12 == JNum(Int2F(12))

TwoArms(units) ==
    << ArmRow(JStr(s_HbA1c), Weeks12, JStr(s_metformin), JNum(Int2F(8)),
              JNum(Int2F(5)), JNum(Int2F(2)), JNull, JNull, units),
       ArmRow(JStr(s_HbA1c), Weeks12, JStr(s_placebo), JNum(Int2F(8)),
              JNum(Int2F(6)), JNum(Int2F(2)), JNull, JNull, units) >>

ImputeEffects ==
    {Effect(JStr(s_HbA1c), JStr(s_md), Weeks12, e, ci[1], ci[2], u, JNull) :
        e \in {JNull, JNum(Int2F(5))},
        ci \in {<<JNull, JNull>>, <<JNull, JNum(One)>>, <<JNum(Zero), JNum(One)>>},
        u \in {JNull, JStr(<<>>), JStr(s_mg)}}
    \cup {Effect(JStr(s_HbA1c), JStr(s_md), JNull, JNull, JNull, JNull, JNull, JNull)}

InitImpute ==
    \/ InitRun(<<>>, MIN_K)
    \/ \E recs \in SeqsUpTo(ImputeEffects, ImputeRecords), units \in {JNull, JStr(s_g)} :
          InitRun(<<Doc(recs, TwoArms(units), NoExposure)>>, MIN_K)

SpecImpute == InitImpute /\ [][Next]_vars

(* Documents for the arm rows of the imputation pass: up to ArmDocs documents;
   each has the metformin and placebo arms of HbA1c at 12 weeks, the placebo
   row with n 8, 0, -4, null or unparsable and sd 2, 0 or null, and may have a
   second, sound pair of arms at 24 weeks; they have no effect record, but for
   one document with sound arms and a Ready record *)
ArmDocs == 2

Weeks24 == JNum(Int2F(24))

ArmNs == {JNum(Int2F(8)), JNum(Zero), JNum(Int2F(-4)), JNull, JStr(<<"n","/","a">>)}
ArmSds == {JNum(Int2F(2)), JNum(Zero), JNull}

\* the two arms at timepoint tp, the placebo row with the given n and sd
ArmsAt(tp, n, sd) ==
    << ArmRow(JStr(s_HbA1c), tp, JStr(s_metformin), JNum(Int2F(8)),
              JNum(Int2F(5)), JNum(Int2F(2)), JNull, JNull, JStr(s_g)),
       ArmRow(JStr(s_HbA1c), tp, JStr(s_placebo), n,
              JNum(Int2F(6)), sd, JNull, JNull, JStr(s_g)) >>

SoundArms(tp) == ArmsAt(tp, JNum(Int2F(8)), JNum(Int2F(2)))

ArmDocuments ==
    {Doc(<<>>, ArmsAt(Weeks12, n, sd) \o extra, NoExposure) :
        n \in ArmNs, sd \in ArmSds, extra \in {<<>>, SoundArms(Weeks24)}}
    \cup {Doc(<<ReadyEffect(JStr(s_HbA1c), JStr(s_md), 0, JStr(s_mg))>>,
               SoundArms(Weeks12), NoExposure)}

InitArms == \E fs \in SeqsUpTo(ArmDocuments, ArmDocs) : InitRun(fs, MIN_K)

SpecArms == InitArms /\ [][Next]_vars

(* Documents for the malformed files: up to DocCount documents, each sound
   (one Ready record; or one record without CI and a pair of arms to impute it
   from), a file of invalid JSON, a file holding a JSON list, or an object whose
   effects list has an entry that is a string (without arms, or with arms and
   the string before or after the record) *)
DocCount == 3

StringEntry == JStr(<<"n","/","a">>)
BareEffect ==
    Effect(JStr(s_HbA1c), JStr(s_md), Weeks12, JNull, JNull, JNull, JNull, JNull)

SoundDocuments ==
    { Doc(<<ReadyEffect(JStr(s_HbA1c), JStr(s_md), 0, JStr(s_mg))>>, <<>>, NoExposure),
      Doc(<<BareEffect>>, SoundArms(Weeks12), NoExposure) }

MalformedDocuments ==
    { InvalidJson, TopLevelList,
      Doc(<<ReadyEffect(JStr(s_HbA1c), JStr(s_md), 1, JStr(s_mg)), StringEntry>>, <<>>,
          NoExposure),
      Doc(<<StringEntry, BareEffect>>, SoundArms(Weeks12), NoExposure),
      Doc(<<BareEffect, StringEntry>>, SoundArms(Weeks12), NoExposure) }

InitDocs ==
    \E fs \in SeqsUpTo(SoundDocuments \cup MalformedDocuments, DocCount) : InitRun(fs, MIN_K)

SpecDocs == InitDocs /\ [][Next]_vars

(* Documents for the two pairing attempts: one document with no effect record
   or one record of HbA1c at 12 weeks without estimate and CI, and the metformin
   and placebo arms (n 8) of HbA1c at 12 weeks; each arm has or lacks each of
   its follow-up mean (5 and 6) and sd (2) and its change mean (-3 and -1) and
   sd (4): md = -1, SE = 1 from follow-up; md = -2, SE = 2 from change *)
Stat(v) == {JNull, JNum(Int2F(v))}

ChangeDocuments ==
    {Doc(recs,
         << ArmRow(JStr(s_HbA1c), Weeks12, JStr(s_metformin), JNum(Int2F(8)),
                   f1[1], f1[2], c1[1], c1[2], JNull),
            ArmRow(JStr(s_HbA1c), Weeks12, JStr(s_placebo), JNum(Int2F(8)),
                   f0[1], f0[2], c0[1], c0[2], JNull) >>,
         NoExposure) :
        recs \in {<<>>, <<BareEffect>>},
        f1 \in Stat(5) \X Stat(2), c1 \in Stat(-3) \X Stat(4),
        f0 \in Stat(6) \X Stat(2), c0 \in Stat(-1) \X Stat(4)}

InitChange ==
    \/ InitRun(<<>>, MIN_K)
    \/ \E d \in ChangeDocuments : InitRun(<<d>>, MIN_K)

SpecChange == InitChange /\ [][Next]_vars

(* Documents for the arm pairing: one document with a Ready record of HbA1c at
   no timepoint and 2..MaxArms arm rows of HbA1c at 12 weeks (n 8, sd 2); the
   row at position i has the follow-up mean 2^(i-1), so that the difference of
   two means names the two rows; the arm names are drawn from ArmLabels, and
   the declared exposure label is absent or "drug" *)
MaxArms == 3

s_control == <<"c","o","n","t","r","o","l">>
s_resveratrol == <<"r","e","s","v","e","r","a","t","r","o","l">>
s_drug == <<"d","r","u","g">>

ArmLabels == {s_metformin, s_resveratrol, s_placebo, s_control, s_drug}

ArmMean(i) == 2 ^ (i - 1)

PairingRows(names) ==
    [i \in 1..Len(names) |->
        ArmRow(JStr(s_HbA1c), Weeks12, JStr(names[i]), JNum(Int2F(8)),
               JNum(Int2F(ArmMean(i))), JNum(Int2F(2)), JNull, JNull, JNull)]

PairingDocuments ==
    {Doc(<<ReadyEffect(JStr(s_HbA1c), JStr(s_md), 0, JStr(s_mg))>>, PairingRows(names), exp) :
        names \in UNION {[1..m -> ArmLabels] : m \in 2..MaxArms},
        exp \in {NoExposure, Exposure(JStr(s_drug), JNull)}}

InitPairing ==
    \/ InitRun(<<>>, MIN_K)
    \/ \E d \in PairingDocuments : InitRun(<<d>>, MIN_K)

SpecPairing == InitPairing /\ [][Next]_vars

(* Documents for the types of the records the pass fills: one document with the
   metformin and placebo arms of HbA1c at 12 weeks and one record of HbA1c at
   12 weeks, its type null, a spelling of MD or another code, its estimate
   missing or 5, its CI missing or (0, 1) *)
TypedLabels ==
    {JNull, JStr(s_md), JStr(<<"m","e","a","n"," ","d","i","f","f","e","r","e","n","c","e">>),
     JStr(s_OR), JStr(s_RR), JStr(s_HR), JStr(s_SMD)}

TypedDocuments ==
    {Doc(<<Effect(JStr(s_HbA1c), t, Weeks12, e, ci[1], ci[2], JNull, JNull)>>,
         TwoArms(units), NoExposure) :
        t \in TypedLabels, e \in {JNull, JNum(Int2F(5))},
        ci \in {<<JNull, JNull>>, <<JNum(Zero), JNum(One)>>},
        units \in {JNull, JStr(s_g)}}

InitTyped ==
    \/ InitRun(<<>>, MIN_K)
    \/ \E d \in TypedDocuments : InitRun(<<d>>, MIN_K)

SpecTyped == InitTyped /\ [][Next]_vars

(* Documents for the order of the checks of pool_groups: an analyzer constructed
   with min_k in 1..MaxMinK, up to MinKRecords records of one group, Ready with
   the unit "mg" or "g" or not Ready *)
OrderEffects ==
    {ReadyEffect(JStr(s_HbA1c), JStr(s_md), 0, u) : u \in {JStr(s_mg), JStr(s_g)}}
    \cup {NotReadyEffect(JStr(s_HbA1c), JStr(s_md), 1, JStr(s_mg))}

InitOrder ==
    \E recs \in SeqsUpTo(OrderEffects, MinKRecords), k \in 1..MaxMinK :
        InitRun(OnePerFile(recs), k)

SpecOrder == InitOrder /\ [][Next]_vars

(* Repeated passes: the documents of the imputation pass, then up to MaxPasses
   further passes of _impute_ci_from_raw over the copies it wrote *)
NextRepass ==
    \/ ImputeCiFromRaw
    \/ ImputeCopies

SpecRepass == InitImpute /\ [][NextRepass]_vars

(* Arrays for dersimonian_laird: k = 1..MaxK estimates (small integers) and
   standard errors (multiples of 1/2 from 0: a zero-width CI has SE = 0) *)
MaxK == 2
MaxSe2 == 2

EstValues == {Int2F(i) : i \in (-MaxNum)..MaxNum}
SeValues == {Fin(i, 2) : i \in 0..MaxSe2}

\* the two-study HbA1c scenario: estimates -0.5 and -0.3, CIs (-0.8, -0.2) and
\* (-0.6, 0.0), the standard errors as se_from_ci derives them
ScenarioEsts == <<Fin(-1, 2), Fin(-3, 10)>>
ScenarioSes ==
    <<se_from_ci(JNum(Fin(-4, 5)), JNum(Fin(-1, 5))), se_from_ci(JNum(Fin(-3, 5)), JNum(Zero))>>

InitDL ==
    \/ \E k \in 1..MaxK :
          \E es \in [1..k -> EstValues], ss \in [1..k -> SeValues] :
              InitCall([NoCall EXCEPT !.fn = "arrays", !.ests = es, !.ses = ss])
    \/ InitCall([NoCall EXCEPT !.fn = "arrays", !.ests = ScenarioEsts, !.ses = ScenarioSes])

NextDL == CallDersimonianLaird

SpecDL == InitDL /\ [][NextDL]_vars

-----------------------------------------------------------------------------
(* Properties of the direct calls (SpecFn) *)

\* the number a JSON scalar stands for: NaN when it is missing, blank,
\* unparsable or NaN itself
Parsed(x) == coerce_float(x)

ReasonReady == "Ready"
ReasonNoEstimate == "No effect estimate"
ReasonMissingCI == "Missing CI (or unparsable)"

\* C6 (as claimed): readiness_reason returns "Ready" if and only if the
\* estimate and both CI bounds are finite numbers.
C6_ReadyIffFinite ==
    call.fn = "readiness_reason" =>
        (call.res = ReasonReady <=>
            /\ IsFinite(Parsed(call.estimate))
            /\ IsFinite(Parsed(call.ci_low))
            /\ IsFinite(Parsed(call.ci_high)))

\* C7 (as claimed): the reason is one of the three outcomes; it is "No effect
\* estimate" whenever the estimate is missing; and it is "Missing CI (or
\* unparsable)" only when the estimate is present and at least one CI bound is
\* absent or unparsable.
C7_ReasonPrecedence ==
    call.fn = "readiness_reason" =>
        /\ call.res \in {ReasonReady, ReasonNoEstimate, ReasonMissingCI}
        /\ IsNaN(Parsed(call.estimate)) => call.res = ReasonNoEstimate
        /\ call.res = ReasonMissingCI =>
              /\ ~IsNaN(Parsed(call.estimate))
              /\ IsNaN(Parsed(call.ci_low)) \/ IsNaN(Parsed(call.ci_high))

\* C8 (as claimed): whenever se_from_ci is defined (not NaN), the standard error
\* is non-negative, for every pair of numeric bounds.
C8_SeNonNegative ==
    (call.fn = "se_from_ci" /\ ~IsNaN(call.res)) => FLe(Zero, call.res)

\* C9 (as claimed): se_from_ci is NaN if and only if at least one bound is
\* non-numeric (null, blank, unparsable or NaN); on numeric bounds, infinite and
\* equal ones included, it is defined.
C9_SeUndefinedIffNonNumeric ==
    call.fn = "se_from_ci" =>
        (IsNaN(call.res) <=> (IsNaN(Parsed(call.ci_low)) \/ IsNaN(Parsed(call.ci_high))))

-----------------------------------------------------------------------------
(* Properties of dersimonian_laird (SpecDL) *)

\* C10 (as claimed): for one record with estimate e and standard error s,
\* dersimonian_laird returns tau2 = 0, pooled = e, CI = (e - 1.96 s, e + 1.96 s)
\* and I2 = 0.
C10_SingleStudy ==
    (call.fn = "dersimonian_laird" /\ Len(call.ests) = 1) =>
        /\ call.res.tau2 = Zero
        /\ call.res.pooled = call.ests[1]
        /\ call.res.ci_low = FSub(call.ests[1], FMul(Z, call.ses[1]))
        /\ call.res.ci_high = FAdd(call.ests[1], FMul(Z, call.ses[1]))
        /\ call.res.I2 = Zero

\* what does hold of the code for one record: the claim, when s > 0
C10_SingleStudyPositiveSe ==
    (call.fn = "dersimonian_laird" /\ Len(call.ests) = 1 /\ FGt(call.ses[1], Zero)) =>
        /\ call.res.tau2 = Zero
        /\ call.res.pooled = call.ests[1]
        /\ call.res.ci_low = FSub(call.ests[1], FMul(Z, call.ses[1]))
        /\ call.res.ci_high = FAdd(call.ests[1], FMul(Z, call.ses[1]))
        /\ call.res.I2 = Zero

-----------------------------------------------------------------------------
(* Properties of pool_groups *)

PooledRows == {pooled_df[i] : i \in 1..Len(pooled_df)}
EffectRows == {effects_df[i] : i \in 1..Len(effects_df)}

\* the five pooled fields of a pooled-summary row
PooledFields(r) == {r.pooled, r.ci_low, r.ci_high, r.tau2, r.I2}

AllNull(r) == \A x \in PooledFields(r) : IsNaN(x)
NoneNull(r) == \A x \in PooledFields(r) : ~IsNaN(x)

\* C1 (as claimed): every row pool_groups emits has either note "OK" and all
\* five pooled fields non-null, or another note and all five null.
C1_AllOrNothing ==
    pc = "pooled" =>
        \A r \in PooledRows :
            \/ r.note = NoteOK /\ NoneNull(r)
            \/ r.note # NoteOK /\ AllNull(r)

\* the (outcome, type) pair of a row
KeyOf(r) == <<r.outcome, r.type>>

\* C2: once pool_groups has run, pooled_df holds exactly one row for each
\* (outcome, type) pair that occurs in effects_df (null outcome or type
\* included, whatever the readiness of its records) and no row for another pair.
C2_OneRowPerGroup ==
    pc = "pooled" =>
        /\ \A e \in EffectRows :
              Cardinality({i \in 1..Len(pooled_df) : KeyOf(pooled_df[i]) = KeyOf(e)}) = 1
        /\ \A r \in PooledRows : \E e \in EffectRows : KeyOf(e) = KeyOf(r)

\* C2 witness: two groups, one with a null outcome or type, one rejected
C2_Witness ==
    /\ pc = "pooled"
    /\ Len(pooled_df) = 2
    /\ \E r \in PooledRows : IsNull(r.outcome) \/ IsNull(r.type)
    /\ \E r \in PooledRows : r.k = 0 /\ r.note # NoteOK

\* the distinct non-blank units of the Ready records of the group of row r
ReadyUnits(r) ==
    {e.unit : e \in {x \in EffectRows :
                        /\ KeyOf(x) = KeyOf(r)
                        /\ x.readiness = ReasonReady
                        /\ ~IsNull(x.unit)
                        /\ StrStrip(x.unit.s) # <<>>}}

\* C3: a group whose Ready records carry more than one distinct non-blank unit
\* has all five pooled fields null and the unit-mismatch note; and only such a
\* group has that note (null or blank units and non-Ready records cause none).
C3_UnitMismatch ==
    pc = "pooled" =>
        \A r \in PooledRows :
            /\ Cardinality(ReadyUnits(r)) > 1 => (AllNull(r) /\ r.note = NoteUnit)
            /\ r.note = NoteUnit => Cardinality(ReadyUnits(r)) > 1

\* C3 witness: a group of two or more Ready records rejected for its units
C3_WitnessMismatch ==
    /\ pc = "pooled"
    /\ \E r \in PooledRows : r.note = NoteUnit /\ r.k >= 2

\* C4 (as claimed): with min_k the constructor's argument, a unit-consistent
\* group with k < min_k has null pooled fields and the note "Less than min-k
\* (min_k); skipping pooling", and one with k >= min_k is pooled.
C4_MinKOfConstructor ==
    pc = "pooled" =>
        \A r \in PooledRows :
            r.note # NoteUnit =>
                IF r.k < min_k THEN AllNull(r) /\ r.note = NoteMinK(min_k)
                ELSE r.note = NoteOK

-----------------------------------------------------------------------------
(* Properties of dersimonian_laird for k >= 2 (SpecDL) *)

\* the inverse-variance weights 1/SE^2, the fixed-effect mean and Cochran's Q
\* around it, as the claim defines them
InvVar(ses) == [i \in 1..Len(ses) |-> FDiv(One, FMul(ses[i], ses[i]))]
FixedMean(ests, ses) ==
    FDiv(FSum([i \in 1..Len(ests) |-> FMul(InvVar(ses)[i], ests[i])]), FSum(InvVar(ses)))
CochranQ(ests, ses) ==
    FSum([i \in 1..Len(ests) |->
            FMul(InvVar(ses)[i], FMul(FSub(ests[i], FixedMean(ests, ses)),
                                      FSub(ests[i], FixedMean(ests, ses))))])

\* a call of dersimonian_laird on k >= 2 records with positive standard errors
\* whose Q is at most k - 1
HomogeneousCall ==
    /\ call.fn = "dersimonian_laird"
    /\ Len(call.ests) >= 2
    /\ \A i \in 1..Len(call.ses) : FGt(call.ses[i], Zero)
    /\ FLe(CochranQ(call.ests, call.ses), Int2F(Len(call.ests) - 1))

\* C11: on k >= 2 records with positive standard errors and Q <= k - 1,
\* dersimonian_laird returns tau2 = 0, I2 = 0, the fixed-effect mean as pooled
\* and pooled -+ 1.96 sqrt(1 / sum(1/SE^2)) as CI; the HbA1c scenario is such a
\* group and pools to -0.40.
C11_HomogeneousIsFixedEffect ==
    /\ HomogeneousCall =>
          /\ call.res.tau2 = Zero
          /\ call.res.I2 = Zero
          /\ call.res.pooled = FixedMean(call.ests, call.ses)
          /\ call.res.ci_low = FSub(call.res.pooled,
                                    FMul(Z, FSqrt(FDiv(One, FSum(InvVar(call.ses))))))
          /\ call.res.ci_high = FAdd(call.res.pooled,
                                     FMul(Z, FSqrt(FDiv(One, FSum(InvVar(call.ses))))))
    /\ (call.fn = "dersimonian_laird" /\ call.ests = ScenarioEsts /\ call.ses = ScenarioSes) =>
          /\ HomogeneousCall
          /\ call.res.pooled = Fin(-2, 5)

\* C11 witness: the scenario pooled (its estimates differ, 0 < Q <= 1)
C11_Witness ==
    /\ HomogeneousCall
    /\ call.ests = ScenarioEsts
    /\ call.ses = ScenarioSes
    /\ FGt(CochranQ(call.ests, call.ses), Zero)
    /\ call.res.pooled = Fin(-2, 5)

-----------------------------------------------------------------------------
(* Properties of _impute_ci_from_raw *)

\* the pass has run to its end
PassDone == pc \notin {"main", "call", "crashed"}

\* the effects list of document i after the pass: that of its written copy, or
\* the input's when no copy was written
EffectsAfter(i) ==
    IF ci_files[i].written THEN ci_files[i].doc.effects_by_outcome
    ELSE files[i].effects_by_outcome

\* field f of a record, non-null before the pass, has the same value after it
Kept(before, after, f) == ~IsNull(before[f]) => after[f] = before[f]

\* C5 (as claimed): every record present before the pass keeps each of ci_low,
\* ci_high, estimate and unit that was non-null; CI bounds are written only
\* into a record whose ci_low and ci_high were both null.
C5_NonNullFieldsKept ==
    PassDone =>
        \A i \in 1..Len(files) :
            \A j \in 1..Len(files[i].effects_by_outcome) :
                LET before == files[i].effects_by_outcome[j]
                    after == EffectsAfter(i)[j]
                IN  /\ Kept(before, after, "ci_low")
                    /\ Kept(before, after, "ci_high")
                    /\ Kept(before, after, "estimate")
                    /\ Kept(before, after, "unit")
                    /\ (after.ci_low # before.ci_low \/ after.ci_high # before.ci_high)
                          => (IsNull(before.ci_low) /\ IsNull(before.ci_high))

\* C5 (amended): as claimed for ci_low, ci_high and estimate; the unit is kept
\* when it is non-null and not the empty string (an empty unit is replaced by
\* the unit of the raw rows when the record's CI is filled).
C5_PopulatedFieldsKept ==
    PassDone =>
        \A i \in 1..Len(files) :
            \A j \in 1..Len(files[i].effects_by_outcome) :
                LET before == files[i].effects_by_outcome[j]
                    after == EffectsAfter(i)[j]
                IN  /\ Kept(before, after, "ci_low")
                    /\ Kept(before, after, "ci_high")
                    /\ Kept(before, after, "estimate")
                    /\ Truthy(before.unit) => after.unit = before.unit
                    /\ (after.ci_low # before.ci_low \/ after.ci_high # before.ci_high)
                          => (IsNull(before.ci_low) /\ IsNull(before.ci_high))

\* C5 witness: a copy in which one record was filled (its estimate 5 kept beside
\* the imputed CI around -1) and another, with a stored CI (0, 1) that differs
\* from the imputed one, was left as it was
C5_Witness ==
    /\ PassDone
    /\ \E i \in 1..Len(files) :
          /\ ci_files[i].written
          /\ \E j, j2 \in 1..Len(files[i].effects_by_outcome) :
                LET before == files[i].effects_by_outcome
                    after == EffectsAfter(i)
                IN  /\ IsNull(before[j].ci_low) /\ ~IsNull(after[j].ci_low)
                    /\ ~IsNull(before[j].estimate)
                    /\ before[j2].ci_low = JNum(Zero)
                    /\ before[j2].timepoint_weeks = Weeks12
                    /\ after[j2] = before[j2]

\* the records of efs for outcome name at timepoint tp
Matching(efs, key) ==
    {j \in 1..Len(efs) : efs[j].name = key[1] /\ efs[j].timepoint_weeks = key[2]}

\* the rows of document d in the raw group key
RawGroup(d, key) ==
    SelectSeq(d.outcomes_raw, LAMBDA r : <<r.name, r.timepoint_weeks>> = key)

\* the (name, timepoint) groups of document d for which an arm pair is obtained
PairedKeys(d) ==
    {key \in {<<d.outcomes_raw[i].name, d.outcomes_raw[i].timepoint_weeks>> :
                 i \in 1..Len(d.outcomes_raw)} :
        FirstPair(_pair_stats(RawGroup(d, key), d.exposure.label, d.exposure.comparator,
                              s_followup_mean, s_followup_sd),
                  _pair_stats(RawGroup(d, key), d.exposure.label, d.exposure.comparator,
                              s_change_mean, s_change_sd)).kind = "ok"}

\* C15: for each group with an arm pair, one record is appended when the list
\* held no record of that name and timepoint, and none when it held one (with
\* or without a CI): the records of a (name, timepoint) that had some stay as
\* many as they were.
C15_AppendedIffNoMatch ==
    PassDone =>
        \A i \in 1..Len(files) :
            \A key \in PairedKeys(files[i]) :
                Cardinality(Matching(EffectsAfter(i), key))
                    = IF Matching(files[i].effects_by_outcome, key) = {} THEN 1
                      ELSE Cardinality(Matching(files[i].effects_by_outcome, key))

-----------------------------------------------------------------------------
(* Properties of the arm rows in _impute_ci_from_raw (SpecArms) *)

\* document d has a pair of arms whose n, mean and sd are all sound
HasSoundGroup(d) ==
    \E i \in 1..Len(d.outcomes_raw) : d.outcomes_raw[i].timepoint_weeks = Weeks24

\* C12 (as claimed): whatever n, mean or sd an arm row has (missing,
\* unparsable, n = 0, negative n), the pass does not raise, and every document
\* with a sound group gets its copy written.
C12_DegenerateArmNeverRaises ==
    /\ pc # "crashed"
    /\ PassDone => \A i \in 1..Len(files) : HasSoundGroup(files[i]) => ci_files[i].written

-----------------------------------------------------------------------------
(* Properties of malformed documents (SpecDocs) *)

\* an unreadable or malformed study document
Malformed(d) ==
    \/ d.json # "object"
    \/ \E i \in 1..Len(d.effects_by_outcome) : ~IsObjectEntry(d.effects_by_outcome[i])

\* the indices of the well-formed documents, in path order
RECURSIVE SoundUpTo(_)
SoundUpTo(n) ==
    IF n = 0 THEN <<>>
    ELSE IF Malformed(files[n]) THEN SoundUpTo(n - 1) ELSE Append(SoundUpTo(n - 1), n)

RECURSIVE RowsOf(_)
\* the rows of the documents with the given indices
RowsOf(idx) ==
    IF idx = <<>> THEN <<>>
    ELSE RowsOf(SubSeq(idx, 1, Len(idx) - 1)) \o load_effect_rows(idx[Len(idx)])

\* C13 (as claimed): a malformed document is skipped as a whole by both stages:
\* the imputation pass does not raise, writes no copy for it and writes for
\* every other document the copy it would write were that document alone;
\* build_effects takes no row from it and every row of the other documents.
C13_MalformedSkipped ==
    /\ pc = "crashed" => out_csv.effects.written
    /\ PassDone =>
          \A i \in 1..Len(files) :
              IF Malformed(files[i]) THEN ~ci_files[i].written
              ELSE ci_files[i] = (IF ImputeDoc(files[i]).kind = "changed"
                                  THEN Copy(ImputeDoc(files[i]).doc) ELSE NoCopy)
    /\ pc \in {"built", "saved", "pooled"} =>
          effects_df = WithReadinessAll(RowsOf(SoundUpTo(Len(files))))


\* C14: two completed runs over the same documents with the same min_k leave
\* the same per-record table and the same pooled summary, whatever an earlier
\* run left behind and in whatever order the paths were supplied
C14_RunIsFunctionOfDocuments ==
    \A i \in 1..Len(runs), j \in 1..Len(runs) :
        runs[i].done /\ runs[j].done =>
            /\ runs[i].effects = runs[j].effects
            /\ runs[i].pooled = runs[j].pooled

\* two completed runs whose paths were supplied in different orders, over
\* records of two documents pooled into a group
C14_Witness ==
    /\ Len(runs) = 2
    /\ runs[1].done /\ runs[2].done
    /\ runs[1].supplied # runs[2].supplied
    /\ Len(runs[2].effects) >= 2
    /\ runs[2].effects[1] # runs[2].effects[2]
    /\ \E i \in 1..Len(runs[2].pooled) : runs[2].pooled[i].k >= 2

-----------------------------------------------------------------------------
(* Properties of normalize_type *)

\* text s is key up to letter case and surrounding blanks
EqualUpToCaseAndBlanks(s, key) ==
    \E i \in 0..Len(s) :
        /\ i + Len(key) <= Len(s)
        /\ \A j \in 1..i : s[j] = " "
        /\ \A j \in 1..Len(key) : LowerChar(s[i + j]) = LowerChar(key[j])
        /\ \A j \in (i + Len(key) + 1)..Len(s) : s[j] = " "

IsAliasLabel(t) == \E a \in aliases : EqualUpToCaseAndBlanks(t.s, a[1])

\* what C17 says of the labels that equal an alias key, of null, and of a
\* second application
AliasNullAndIdempotence(t, r) ==
    /\ IsNull(t) => IsNull(r)
    /\ ~IsNull(t) => \A a \in aliases : EqualUpToCaseAndBlanks(t.s, a[1]) => r = JStr(a[2])
    /\ normalize_type(r) = r

\* C17 (as claimed): a label equal to an alias key up to case and surrounding
\* whitespace gives that key's code; every other non-null label is returned
\* uppercased; null gives null; normalize_type of the result is the result.
C17_OtherLabelsUppercased ==
    call.fn = "normalize_type" =>
        /\ AliasNullAndIdempotence(call.label, call.code)
        /\ (~IsNull(call.label) /\ ~IsAliasLabel(call.label))
              => call.code = JStr(StrUpper(call.label.s))

\* C17 (amended): as claimed, except that every other non-null label is
\* returned with its surrounding whitespace removed and uppercased.
C17_OtherLabelsStrippedUppercased ==
    call.fn = "normalize_type" =>
        /\ AliasNullAndIdempotence(call.label, call.code)
        /\ (~IsNull(call.label) /\ ~IsAliasLabel(call.label))
              => call.code = JStr(StrUpper(StrStrip(call.label.s)))

\* " cohen's d " has been given the code SMD
C17_Witness ==
    /\ call.fn = "normalize_type"
    /\ call.label = JStr(<<" ","c","o","h","e","n","'","s"," ","d"," ">>)
    /\ call.code = JStr(s_SMD)

-----------------------------------------------------------------------------
(* Properties of the records that are not Ready *)

\* the rows of df whose readiness is Ready
ReadyRows(df) == SelectSeq(df, LAMBDA r : r.readiness = ReasonReady)

\* C18: the pooled summary is what it would be had the records that are not
\* Ready not been loaded (k counts the Ready records of the group; units and
\* estimates of the others change no row); and each record that is not Ready
\* is a row, with its reason, of effects.csv and of readiness.csv.
C18_NonReadyRetainedNotPooled ==
    /\ pc = "pooled" =>
          \A j \in 1..Len(pooled_df) :
              /\ pooled_df[j] = PoolRow(KeyOf(pooled_df[j]),
                                        GroupOf(ReadyRows(effects_df), KeyOf(pooled_df[j])))
              /\ pooled_df[j].k =
                    Cardinality({i \in 1..Len(effects_df) :
                                    /\ KeyOf(effects_df[i]) = KeyOf(pooled_df[j])
                                    /\ effects_df[i].readiness = ReasonReady})
    /\ pc \in {"saved", "pooled"} =>
          /\ Len(out_csv.effects.rows) = Len(AllRows(Len(files)))
          /\ Len(out_csv.readiness.rows) = Len(AllRows(Len(files)))
          /\ \A i \in 1..Len(effects_df) :
                effects_df[i].readiness # ReasonReady =>
                    /\ effects_df[i].readiness \in {ReasonNoEstimate, ReasonMissingCI}
                    /\ out_csv.effects.rows[i] = effects_df[i]
                    /\ out_csv.readiness.rows[i].file = effects_df[i].file
                    /\ out_csv.readiness.rows[i].readiness = effects_df[i].readiness
          /\ \A f \in 1..Len(files) :
                \A e \in 1..Len(files[f].effects_by_outcome) :
                    IsNull(files[f].effects_by_outcome[e].ci_low) =>
                        \E i \in 1..Len(out_csv.readiness.rows) :
                            /\ out_csv.readiness.rows[i].file = f
                            /\ out_csv.readiness.rows[i].readiness = ReasonMissingCI

\* two Ready records in "mg" pooled (k = 2, note OK) beside a record of the
\* same group that is not Ready and has the unit "g", which readiness.csv lists
C18_Witness ==
    /\ pc = "pooled"
    /\ \E r \in PooledRows : r.k = 2 /\ r.note = NoteOK /\ r.unit = JStr(s_mg)
    /\ \E i \in 1..Len(effects_df) :
          /\ effects_df[i].readiness = ReasonMissingCI
          /\ effects_df[i].unit = JStr(s_g)
          /\ out_csv.readiness.rows[i].readiness = ReasonMissingCI

-----------------------------------------------------------------------------
(* Properties of the Hedges' g synthesis *)

\* the synthesis must fail for the pair: df <= 0, or the pooled variance
\* ((n1 - 1) s1^2 + (n0 - 1) s0^2) / df is not positive
MustFail(p) ==
    \/ p[1].n + p[2].n - 2 <= 0
    \/ ~FGt(FAdd(FMul(Int2F(p[1].n - 1), FMul(p[1].s, p[1].s)),
                 FMul(Int2F(p[2].n - 1), FMul(p[2].s, p[2].s))), Zero)

\* the records of the batch for pair i
RecordsOf(i) ==
    {call.records[j].rec : j \in {x \in 1..Len(call.records) : call.records[x].pair = i}}

\* C19: identical arms with df > 0 and s > 0 give g = 0, a CI symmetric around
\* 0, type SMD and unit "SD units"; a pair with df <= 0 or pooled variance <= 0
\* gives no record, and every other pair of the batch gives its record.
C19_HedgesG ==
    call.fn = "synthesize" =>
        \A i \in 1..Len(call.pairs) :
            /\ MustFail(call.pairs[i]) => RecordsOf(i) = {}
            /\ ~MustFail(call.pairs[i]) => Cardinality(RecordsOf(i)) = 1
            /\ (call.pairs[i][1] = call.pairs[i][2] /\ ~MustFail(call.pairs[i])) =>
                  \A r \in RecordsOf(i) :
                      /\ r.g = Zero
                      /\ FGt(r.ci_high, Zero)
                      /\ r.ci_low = FNeg(r.ci_high)
                      /\ r.type = JStr(s_SMD)
                      /\ r.unit = JStr(s_SD_units)

\* a batch whose first pair fails (n1 = n0 = 1) and whose second pair, of
\* identical arms, has its record
C19_Witness ==
    /\ call.fn = "synthesize"
    /\ call.pairs[1][1].n + call.pairs[1][2].n - 2 <= 0
    /\ call.pairs[2][1] = call.pairs[2][2]
    /\ \E j \in 1..Len(call.records) :
          call.records[j].pair = 2 /\ call.records[j].rec.g = Zero

-----------------------------------------------------------------------------
(* Properties of the two pairing attempts (SpecChange) *)

\* both arms of document d have the mean and the sd of the given keys
BothArmsHave(d, mean_key, sd_key) ==
    \A i \in 1..Len(d.outcomes_raw) :
        ~IsNull(d.outcomes_raw[i][mean_key]) /\ ~IsNull(d.outcomes_raw[i][sd_key])

\* the written copy of document i has one HbA1c record, with this estimate and CI
ImputedAs(i, est, lo, hi) ==
    /\ ci_files[i].written
    /\ Len(ci_files[i].doc.effects_by_outcome) = 1
    /\ ci_files[i].doc.effects_by_outcome[1].estimate = JNum(est)
    /\ ci_files[i].doc.effects_by_outcome[1].ci_low = JNum(lo)
    /\ ci_files[i].doc.effects_by_outcome[1].ci_high = JNum(hi)

\* C20: when both arms have follow-up mean and sd the imputed estimate and CI
\* are those of the follow-up statistics (-1, -2.96, 0.96), whatever the change
\* scores are; the change scores (-2, -5.92, 1.92) are used only when the
\* follow-up pairing gives nothing; the group is skipped only when both do.
C20_FollowUpFirst ==
    PassDone =>
        \A i \in 1..Len(files) :
            IF BothArmsHave(files[i], "followup_mean", "followup_sd")
            THEN ImputedAs(i, Int2F(-1), Fin(-74, 25), Fin(24, 25))
            ELSE IF BothArmsHave(files[i], "change_mean", "change_sd")
            THEN ImputedAs(i, Int2F(-2), Fin(-148, 25), Fin(48, 25))
            ELSE ~ci_files[i].written

\* a document with follow-up and change statistics on both arms, imputed from
\* the follow-up statistics
C20_Witness ==
    /\ PassDone
    /\ \E i \in 1..Len(files) :
          /\ BothArmsHave(files[i], "followup_mean", "followup_sd")
          /\ BothArmsHave(files[i], "change_mean", "change_sd")
          /\ ImputedAs(i, Int2F(-1), Fin(-74, 25), Fin(24, 25))

-----------------------------------------------------------------------------
(* Properties of the arm pairing (SpecPairing) *)

\* the tag _classify_arm gives row r of document d
TagOf(d, r) == _classify_arm(r.arm_name, d.exposure.label, d.exposure.comparator)

\* the records the pass appended to document i
Appended(i) ==
    SubSeq(EffectsAfter(i), Len(files[i].effects_by_outcome) + 1, Len(EffectsAfter(i)))

\* record e is the mean difference of rows a (intervention) and b (control)
IsDifferenceOf(e, a, b) ==
    e.estimate = JNum(FSub(a.followup_mean.v, b.followup_mean.v))

\* the arm names of document d, each once
DistinctArms(d) == {d.outcomes_raw[j].arm_name : j \in 1..Len(d.outcomes_raw)}

\* C21: a result of _pair_stats uses as control an arm classified control and
\* as intervention another arm that is not classified control; with two arms
\* a pair is produced only when exactly one of them is classified control.
C21_ControlIsControl ==
    PassDone =>
        \A i \in 1..Len(files) :
            /\ \A k \in 1..Len(Appended(i)) :
                  \E ja, jb \in 1..Len(files[i].outcomes_raw) :
                      LET a == files[i].outcomes_raw[ja]
                          b == files[i].outcomes_raw[jb]
                      IN  /\ a.arm_name # b.arm_name
                          /\ IsDifferenceOf(Appended(i)[k], a, b)
                          /\ TagOf(files[i], b) = "control"
                          /\ TagOf(files[i], a) # "control"
            /\ (Cardinality(DistinctArms(files[i])) = 2 /\ Appended(i) # <<>>) =>
                  Cardinality({r \in {files[i].outcomes_raw[j] :
                                         j \in 1..Len(files[i].outcomes_raw)} :
                                  TagOf(files[i], r) = "control"}) = 1

\* the distinct arms of document d that _classify_arm gives the tag
ArmsTagged(d, tag) ==
    {d.outcomes_raw[j].arm_name :
        j \in {x \in 1..Len(d.outcomes_raw) : TagOf(d, d.outcomes_raw[x]) = tag}}

\* C22: a group that does not have exactly one arm classified intervention and
\* exactly one classified control gets no record (with two or more arms of one
\* class, none of them is picked).
C22_ExactlyOneOfEach ==
    PassDone =>
        \A i \in 1..Len(files) :
            Appended(i) # <<>> =>
                /\ Cardinality(ArmsTagged(files[i], "intervention")) = 1
                /\ Cardinality(ArmsTagged(files[i], "control")) = 1

-----------------------------------------------------------------------------
(* Properties of the types of the filled records (SpecTyped) *)

\* C23: a record present before the pass whose type is not MD keeps its
\* ci_low, ci_high and estimate, whatever its name and timepoint.
C23_OnlyMeanDifferencesFilled ==
    PassDone =>
        \A i \in 1..Len(files) :
            \A j \in 1..Len(files[i].effects_by_outcome) :
                normalize_type(files[i].effects_by_outcome[j].type) # JStr(s_MD) =>
                    /\ EffectsAfter(i)[j].ci_low = files[i].effects_by_outcome[j].ci_low
                    /\ EffectsAfter(i)[j].ci_high = files[i].effects_by_outcome[j].ci_high
                    /\ EffectsAfter(i)[j].estimate = files[i].effects_by_outcome[j].estimate

-----------------------------------------------------------------------------
(* Properties of the script: the pass, then the run *)

\* C24: after the pass, the effects table the run builds holds every record of
\* every written copy, with the copy's estimate and CI and the readiness Ready.
C24_RunReadsCopies ==
    pc \in {"built", "saved", "pooled"} =>
        \A i \in 1..Len(files) :
            ci_files[i].written =>
                \A j \in 1..Len(ci_files[i].doc.effects_by_outcome) :
                    \E k \in 1..Len(effects_df) :
                        /\ effects_df[k].file = i
                        /\ effects_df[k].estimate =
                              coerce_float(ci_files[i].doc.effects_by_outcome[j].estimate)
                        /\ effects_df[k].ci_low =
                              coerce_float(ci_files[i].doc.effects_by_outcome[j].ci_low)
                        /\ effects_df[k].ci_high =
                              coerce_float(ci_files[i].doc.effects_by_outcome[j].ci_high)
                        /\ effects_df[k].readiness = ReasonReady

-----------------------------------------------------------------------------
(* Properties of the order of the checks in pool_groups (SpecOrder) *)

-----------------------------------------------------------------------------
(* Grouping as a partition *)

\* the positions of the Ready records of effects_df, and those of one group
ReadyAt == {i \in 1..Len(effects_df) : effects_df[i].readiness = ReasonReady}
ReadyOfKey(key) == {i \in ReadyAt : KeyOf(effects_df[i]) = key}

RECURSIVE SumK(_)
\* the sum of k over a sequence of pooled-summary rows
SumK(rows) == IF rows = <<>> THEN 0 ELSE Head(rows).k + SumK(Tail(rows))

\* C26: pool_groups leaves effects_df as it was, and once it has run every
\* Ready record is counted in the k of exactly one pooled-summary row, the row
\* of its own (outcome, type) pair (whose k is the number of Ready records of
\* that pair), and the k of all rows add up to the number of Ready records.
C26_GroupingIsPartition ==
    /\ [][pc' = "pooled" => effects_df' = effects_df]_vars
    /\ [](pc = "pooled" =>
            /\ \A i \in ReadyAt :
                  /\ Cardinality({j \in 1..Len(pooled_df) :
                                     KeyOf(pooled_df[j]) = KeyOf(effects_df[i])}) = 1
                  /\ \A j \in 1..Len(pooled_df) :
                        KeyOf(pooled_df[j]) = KeyOf(effects_df[i])
                            => pooled_df[j].k = Cardinality(ReadyOfKey(KeyOf(effects_df[i])))
            /\ SumK(pooled_df) = Cardinality(ReadyAt))

\* C26 witness: two Ready records of one outcome and two types, each counted
\* in the row of its own pair
C26_Witness ==
    /\ pc = "pooled"
    /\ Len(pooled_df) = 2
    /\ Cardinality(ReadyAt) = 2
    /\ \A r \in PooledRows : r.k = 1
    /\ \A r, q \in PooledRows : r.outcome = q.outcome

-----------------------------------------------------------------------------
(* Heterogeneity statistics and the pooled interval on the rows with note "OK" *)

\* the Ready records of the group of pooled-summary row r, in table order
ReadyGroup(r) ==
    SelectSeq(effects_df, LAMBDA e : KeyOf(e) = KeyOf(r) /\ e.readiness = ReasonReady)

EstsOf(g) == [i \in 1..Len(g) |-> g[i].estimate]
SesOf(g) == [i \in 1..Len(g) |-> g[i].SE]

\* tau2 >= 0 and 0 <= I2 < 100 on row r
HeterogeneityInRange(r) ==
    /\ FLe(Zero, r.tau2)
    /\ FLe(Zero, r.I2)
    /\ FLt(r.I2, Int2F(100))

\* I2 and tau2 of row r are zero together, and exactly when q <= k - 1
HeterogeneityAgrees(r, q) ==
    /\ IsZero(r.I2) <=> IsZero(r.tau2)
    /\ IsZero(r.tau2) <=> FLe(q, Int2F(r.k - 1))

\* C27 (as claimed): on every row with note "OK", tau2 >= 0 and 0 <= I2 < 100,
\* and for k >= 2, I2 = 0 exactly when tau2 = 0, both being zero iff Q <= k - 1.
C27_HeterogeneityConsistent ==
    pc = "pooled" =>
        \A r \in PooledRows :
            r.note = NoteOK =>
                /\ HeterogeneityInRange(r)
                /\ r.k >= 2 =>
                      HeterogeneityAgrees(r, CochranQ(EstsOf(ReadyGroup(r)), SesOf(ReadyGroup(r))))

\* the same for the groups whose Ready records all have a non-zero SE
C27_HeterogeneityConsistentNonZeroSe ==
    pc = "pooled" =>
        \A r \in PooledRows :
            (r.note = NoteOK /\ \A i \in 1..Len(ReadyGroup(r)) : ~IsZero(ReadyGroup(r)[i].SE)) =>
                /\ HeterogeneityInRange(r)
                /\ r.k >= 2 =>
                      HeterogeneityAgrees(r, CochranQ(EstsOf(ReadyGroup(r)), SesOf(ReadyGroup(r))))

\* the pooled estimate of row r lies between the smallest and the largest
\* estimate of the Ready records g of its group
WithinEstimates(r, g) ==
    /\ \E i \in 1..Len(g) : FLe(g[i].estimate, r.pooled)
    /\ \E i \in 1..Len(g) : FLe(r.pooled, g[i].estimate)

\* ci_low <= pooled <= ci_high, at equal distances
SymmetricInterval(r) ==
    /\ FLe(r.ci_low, r.pooled)
    /\ FLe(r.pooled, r.ci_high)
    /\ FSub(r.pooled, r.ci_low) = FSub(r.ci_high, r.pooled)

\* C28 (as claimed): on every row with note "OK" the pooled estimate lies
\* between the smallest and the largest estimate of the group's Ready records,
\* and ci_low <= pooled <= ci_high with the interval symmetric around pooled.
C28_PooledWithinEstimates ==
    pc = "pooled" =>
        \A r \in PooledRows :
            r.note = NoteOK => (WithinEstimates(r, ReadyGroup(r)) /\ SymmetricInterval(r))

\* the same for the groups whose Ready records all have a non-zero SE
C28_PooledWithinEstimatesNonZeroSe ==
    pc = "pooled" =>
        \A r \in PooledRows :
            (r.note = NoteOK /\ \A i \in 1..Len(ReadyGroup(r)) : ~IsZero(ReadyGroup(r)[i].SE)) =>
                (WithinEstimates(r, ReadyGroup(r)) /\ SymmetricInterval(r))

-----------------------------------------------------------------------------
(* Repeated passes of _impute_ci_from_raw *)

\* the copies as the latest pass over the copies found them
CopiesBefore == call.records[Len(call.records)]

\* C29 (as claimed): a pass of _impute_ci_from_raw over the copies that an
\* earlier pass produced leaves every copy's effects list as it was, for any
\* number of such passes.
C29_PassIdempotent ==
    call.records # <<>> =>
        \A i \in 1..Len(ci_files) :
            ci_files[i].written =>
                ci_files[i].doc.effects_by_outcome = CopiesBefore[i].doc.effects_by_outcome

-----------------------------------------------------------------------------
(* The intervals the imputation pass writes *)

\* ci_low <= estimate <= ci_high on effect record e
WellFormedInterval(e) ==
    /\ FLe(coerce_float(e.ci_low), coerce_float(e.estimate))
    /\ FLe(coerce_float(e.estimate), coerce_float(e.ci_high))

\* the positions in copy i of the records the pass filled or appended
TouchedAt(i) ==
    {j \in 1..Len(ci_files[i].doc.effects_by_outcome) :
        \/ j > Len(files[i].effects_by_outcome)
        \/ ci_files[i].doc.effects_by_outcome[j] # files[i].effects_by_outcome[j]}

\* C30 (as claimed): every effect record the pass filled or appended has
\* ci_low <= estimate <= ci_high afterwards, also a filled record whose
\* estimate was populated before the pass and kept.
C30_ImputedIntervalWellFormed ==
    pc = "imputed" =>
        \A i \in 1..Len(ci_files) :
            ci_files[i].written =>
                \A j \in TouchedAt(i) :
                    WellFormedInterval(ci_files[i].doc.effects_by_outcome[j])

\* the same for the appended records and the filled records whose estimate was
\* missing before the pass
C30_ImputedEstimateIntervalWellFormed ==
    pc = "imputed" =>
        \A i \in 1..Len(ci_files) :
            ci_files[i].written =>
                \A j \in TouchedAt(i) :
                    (j > Len(files[i].effects_by_outcome)
                     \/ IsNull(files[i].effects_by_outcome[j].estimate))
                        => WellFormedInterval(ci_files[i].doc.effects_by_outcome[j])

=============================================================================
